---- MODULE Spec2Model ----
(***************************************************************************)
(* Vardh1n/car: browser dashboards for a remote GPIO / motor service.      *)
(*                                                                         *)
(* Modelled components                                                     *)
(*   - the GPIO dashboard of testfrontend/src/routes/+page.svelte          *)
(*     (first <script>, variant "page") and its older copy                 *)
(*     unnamed/part_000 (variant "part000"): State Mirror, Command         *)
(*     Dispatcher, polling timer, component life cycle;                    *)
(*   - the GPIO form page unnamed/part_002 (variant "part002"), which      *)
(*     shares makeRequest and the loaders with them;                       *)
(*   - the camera session of +page.svelte (startCamera);                   *)
(*   - the tank-controller session of +page.svelte (second <script>,       *)
(*     connectToBackend).                                                  *)
(*                                                                         *)
(* Every `await` of the source is a step boundary: an async invocation is  *)
(* a task that holds its position (stage, pc) between steps.  The remote   *)
(* service is the environment: it handles a request (ServerHandle) some    *)
(* time after it was sent and the response is delivered some time after   *)
(* that, so responses may arrive in any order.                             *)
(***************************************************************************)
EXTENDS Integers, Sequences, FiniteSets, TLC

VARIABLES
    \* ---- GPIO dashboard (+page.svelte first script, part_000)
    variant,            \* which source file runs: "page" | "part000" | "part002"
    connectionStatus,   \* 'disconnected' | 'connected' | 'error'
    pins,               \* mirror of /pins/all .pins
    availablePins,      \* mirror of /pins/all .available_pins
    predefinedPins,     \* mirror of /pins/predefined .predefined_pins
    motorStatus,        \* mirror of /motor/status .motor_status
    tankLeftSpeed,
    tankRightSpeed,
    moving,             \* moveForward's re-entrancy guard
    refreshInterval,    \* "unset" | "set" | "cleared"
    lifecycle,          \* "mounted" | "destroyed"
    tasks,              \* in-flight async invocations
    gpio,               \* remote service: pin table
    motor,              \* remote service: motor pin levels
    ev,                 \* what the last step did (request sent, response applied, alert)
    tog,                \* observer of consecutive togglePin invocations
    race,               \* observer of refresh requests in flight at the same time
    invocations,        \* number of invocations started after mount
    faults,             \* number of faulty responses so far
    \* ---- camera session (+page.svelte startCamera)
    ws,                 \* index of the socket `ws` refers to (0: none)
    socks,              \* every WebSocket created so far: its readyState
    camTimers,          \* pending reconnect timeouts
    cameraConnected,
    imgUrl,             \* current object URL (0: '')
    urls,               \* object URLs created and not revoked
    nextUrl,            \* number of object URLs created so far
    detectionInfo,
    objectDetected,
    findObject,
    foundTarget,
    camEv,              \* what the last camera step did
    \* ---- tank-controller session (+page.svelte second script)
    tankWs,             \* index of the socket `ws` refers to (0: null)
    tankSocks,          \* every WebSocket created so far: its readyState
    tankTimers,         \* pending setTimeout(connectToBackend, 3000)
    tankConnectionStatus,
    tankDestroyed,      \* onDestroy has run
    keysPressed,        \* the Set of keys held down
    detectionEnabled,
    currentFrame,       \* data: URL of the last frame ('' at first)
    detections,
    currentTargetObjects,
    targetObjects,      \* the target list as text
    autoMovementEnabled,
    movementActive,
    tankEv,             \* what the last tank-controller step did
    \* ---- RC-car controller (part_001)
    serverUrl,
    connected,
    status,
    errorMessage,
    isMoving,
    currentAction,
    probes,             \* checkConnection invocations awaiting
    commands,           \* sendCommand invocations awaiting
    carLast,            \* the last command sent ("" before the first)
    carEv               \* what the last RC-car step did

dashVars == <<variant, connectionStatus, pins, availablePins, predefinedPins,
              motorStatus, tankLeftSpeed, tankRightSpeed, moving, refreshInterval,
              lifecycle, tasks, gpio, motor, ev, tog, race, invocations, faults>>
camVars  == <<ws, socks, camTimers, cameraConnected, imgUrl, urls, nextUrl,
              detectionInfo, objectDetected, findObject, foundTarget, camEv>>
tankView == <<currentFrame, detections, currentTargetObjects, targetObjects,
              autoMovementEnabled, movementActive>>
tankVars == <<tankWs, tankSocks, tankTimers, tankConnectionStatus, tankDestroyed,
              keysPressed, detectionEnabled, tankView, tankEv>>
carUi    == <<serverUrl, connected, status, errorMessage, isMoving, currentAction>>
carVars  == <<carUi, probes, commands, carLast, carEv>>
vars     == <<dashVars, camVars, tankVars, carVars>>

-----------------------------------------------------------------------------
(* Bounds of the model *)

\* concurrent async invocations (tasks) the model follows at once
MaxTasks == 2
\* invocations (user actions and timer ticks) one behaviour follows after mount
MaxInvocations == 2
\* responses in one behaviour that are not the well-formed 2xx response: lost,
\* 4xx/5xx although the request is valid, or 2xx with an unexpected body
MaxFaults == 1

\* pins the dashboard is exercised on (a subset of allGpioPins)
Pins == {13}
\* slider positions (the DOM hands them over as strings of digits)
DutyInputs == {<<5, 0>>}
TankSpeeds == {60}
Modes == {"output"}
MotorPins == {"IN1"}
PredefinedNames == {"LED"}

-----------------------------------------------------------------------------
(* JavaScript values *)

EmptyMap == <<>>
Undefined == [t |-> "undefined", m |-> EmptyMap]
Obj(m) == [t |-> "object", m |-> m]

\* `a || b` on a value that is an object or undefined
OrElse(a, b) == IF a.t = "object" THEN a ELSE b

RECURSIVE DigitsValue(_)
DigitsValue(s) ==
    IF s = <<>> THEN 0 ELSE 10 * DigitsValue(SubSeq(s, 1, Len(s) - 1)) + s[Len(s)]
\* parseFloat on a string of decimal digits
parseFloat(s) == [t |-> "number", n |-> DigitsValue(s)]
Str(s) == [t |-> "string", s |-> s]

\* the PWM sub-state of a pin entry: <<>> (none) or <<[frequency, duty_cycle]>>
NoPwm == <<>>
Pwm(f, d) == <<[frequency |-> f, duty_cycle |-> d]>>
PinEntry(mode, state, pwm) == [mode |-> mode, state |-> state, pwm |-> pwm]

\* pins[pin]?.state || false
MirrorState(p, pin) == IF pin \in DOMAIN p.m THEN p.m[pin].state ELSE FALSE
\* pins[pin]?.pwm is truthy
MirrorHasPwm(p, pin) == pin \in DOMAIN p.m /\ p.m[pin].pwm # NoPwm

-----------------------------------------------------------------------------
(* Requests *)

directionalSpeed == 50
DefaultFrequency == 1000

NoBody == [none |-> TRUE]
Req(method, path, param, body) ==
    [method |-> method, path |-> path, param |-> param, body |-> body]
NoReq == Req("", "", 0, NoBody)

GetPins       == Req("GET", "/pins/all", 0, NoBody)
GetPredefined == Req("GET", "/pins/predefined", 0, NoBody)
GetMotor      == Req("GET", "/motor/status", 0, NoBody)
Probe         == Req("GET", "/", 0, NoBody)

\* the request a refresh or probe stage sends
StageReq(kind) ==
    CASE kind = "pins"       -> GetPins
      [] kind = "predefined" -> GetPredefined
      [] kind = "motor"      -> GetMotor
      [] kind = "probe"      -> Probe

PinOps   == {"quickConfigurePin", "togglePin", "setPinHigh", "setPinLow",
             "setPWM", "stopPWM"}
NameOps  == {"setPredefinedPinHigh", "setPredefinedPinLow"}
SpeedOps == {"moveForward", "moveBackward", "turnLeft", "turnRight",
             "spinLeft", "spinRight"}
MotorOps == SpeedOps \cup {"tankDrive", "stopMotors"}
CommandOps == PinOps \cup NameOps \cup MotorOps \cup {"cleanupAllPins"}
\* the commands of part_002 (stopPWM and cleanupAllPins are as above)
FormOps  == {"configurePin", "digitalWrite", "digitalRead", "startPWM", "updatePWM",
             "togglePredefinedPin", "updatePredefinedPWM"}

SpeedPath(op) ==
    CASE op = "moveForward"  -> "/motor/forward"
      [] op = "moveBackward" -> "/motor/backward"
      [] op = "turnLeft"     -> "/motor/left"
      [] op = "turnRight"    -> "/motor/right"
      [] op = "spinLeft"     -> "/motor/spin-left"
      [] op = "spinRight"    -> "/motor/spin-right"

\* the duty cycle setPWM puts in the body: parseFloat(dutyCycle) in +page.svelte,
\* the slider's string as it is in part_000
DutyArg(v, dutyCycle) == IF v = "page" THEN parseFloat(dutyCycle) ELSE Str(dutyCycle)

\* setPWM's choice between /pwm/start and /pwm/update, from the mirror
SetPWMReq(v, p, pin, dutyCycle) ==
    IF ~MirrorHasPwm(p, pin)
    THEN Req("POST", "/pwm/start", 0,
             [pin |-> pin, frequency |-> DefaultFrequency,
              duty_cycle |-> DutyArg(v, dutyCycle)])
    ELSE Req("PUT", "/pwm/update", 0,
             [pin |-> pin, duty_cycle |-> DutyArg(v, dutyCycle)])

\* togglePin's body: the negation of the level the mirror holds
TogglePinSetsLowReq(p, pin) ==
    Req("POST", "/digital/write", 0, [pin |-> pin, state |-> FALSE])
TogglePinRepeatsLevelReq(p, pin) ==
    Req("POST", "/digital/write", 0, [pin |-> pin, state |-> MirrorState(p, pin)])
TogglePinReq(p, pin) ==
    Req("POST", "/digital/write", 0, [pin |-> pin, state |-> ~MirrorState(p, pin)])

\* the side-effecting request of a command; a: its arguments
CommandReq(v, op, a, p) ==
    CASE op = "quickConfigurePin" ->
            Req("POST", "/pin/configure", 0,
                [pin |-> a.pin, mode |-> a.mode,
                 initial_state |-> IF a.mode = "output" THEN "false" ELSE "null",
                 pull_up_down |-> IF a.mode = "input" THEN "floating" ELSE "null"])
      [] op = "togglePin"  -> TogglePinReq(p, a.pin)
      [] op = "setPinHigh" -> Req("POST", "/digital/high", a.pin, NoBody)
      [] op = "setPinLow"  -> Req("POST", "/digital/low", a.pin, NoBody)
      [] op = "setPredefinedPinHigh" -> Req("POST", "/pins/predefined/high", a.name, NoBody)
      [] op = "setPredefinedPinLow"  -> Req("POST", "/pins/predefined/low", a.name, NoBody)
      [] op = "tankDrive" ->
            Req("POST", "/motor/tank", 0, [left_speed |-> a.left, right_speed |-> a.right])
      [] op \in SpeedOps -> Req("POST", SpeedPath(op), 0, [speed |-> a.speed])
      [] op = "stopMotors" -> Req("POST", "/motor/stop", 0, NoBody)
      [] op = "setPWM"  -> SetPWMReq(v, p, a.pin, a.duty)
      [] op = "stopPWM" -> Req("POST", "/pwm/stop", a.pin, NoBody)
      [] op = "cleanupAllPins" -> Req("POST", "/pins/cleanup", 0, NoBody)
      \* part_002: the form page (query strings are kept where bodies are)
      [] op = "configurePin" ->
            Req("POST", "/pin/configure", 0,
                [pin |-> a.pin, mode |-> a.mode,
                 initial_state |-> IF a.mode = "output"
                                   THEN IF a.state THEN "true" ELSE "false"
                                   ELSE "null",
                 pull_up_down |-> IF a.mode = "input" THEN "floating" ELSE "null"])
      [] op = "digitalWrite" ->
            Req("POST", "/digital/write", 0, [pin |-> a.pin, state |-> a.state])
      [] op = "digitalRead" -> Req("GET", "/digital/read", a.pin, NoBody)
      [] op = "startPWM" ->
            Req("POST", "/pwm/start", 0,
                [pin |-> a.pin, frequency |-> DefaultFrequency,
                 duty_cycle |-> parseFloat(a.duty)])
      [] op = "updatePWM" ->
            Req("PUT", "/pwm/update", 0, [pin |-> a.pin, duty_cycle |-> parseFloat(a.duty)])
      [] op = "togglePredefinedPin" ->
            Req("POST", "/pins/predefined/digital", a.name, [state |-> ~a.state])
      [] op = "updatePredefinedPWM" ->
            Req("POST", "/pins/predefined/pwm", a.name, [duty_cycle |-> Str(a.duty)])

\* the State Mirror refreshes a command runs after its request
CommandRefreshesPredefined(v, op) == <<"pins", "predefined">>
CommandRefreshes(v, op) ==
    CASE op = "cleanupAllPins" -> IF v = "page" THEN <<"pins", "motor">> ELSE <<"pins">>
      [] op \in MotorOps -> <<"motor">>
      [] OTHER -> <<"pins">>

\* the awaits of the other async invocations, in order
MountStages(v) ==
    CASE v = "page"    -> <<"probe", "pins", "predefined", "motor">>
      [] v = "part000" -> <<"pins", "predefined", "motor">>
      [] v = "part002" -> <<"pins", "predefined">>
TickStages == <<"pins", "motor">>

-----------------------------------------------------------------------------
(* The remote service (environment)                                        *)

PredefinedTable == [n \in PredefinedNames |-> 13]
AvailableOf(g) == [p \in Pins \ DOMAIN g |-> "available"]
DutyValue(d) == IF d.t = "number" THEN d.n ELSE DigitsValue(d.s)
MotorAll(b) == [n \in MotorPins |-> [current_value |-> b]]

SetLevel(g, pin, level) == [g EXCEPT ![pin].state = level]

\* whether the service accepts the request in its current state
ServerAccepts(req, g) ==
    CASE req.path \in {"/digital/write", "/pwm/start"} -> req.body.pin \in DOMAIN g
      [] req.path \in {"/digital/high", "/digital/low", "/pwm/stop", "/digital/read"} ->
            req.param \in DOMAIN g
      [] req.path \in {"/pins/predefined/high", "/pins/predefined/low",
                       "/pins/predefined/digital", "/pins/predefined/pwm"} ->
            PredefinedTable[req.param] \in DOMAIN g
      [] req.path = "/pwm/update" ->
            req.body.pin \in DOMAIN g /\ g[req.body.pin].pwm # NoPwm
      [] OTHER -> TRUE

\* the pin table after an accepted request
ServerGpio(req, g) ==
    CASE req.path = "/pin/configure" ->
            [p \in DOMAIN g \cup {req.body.pin} |->
                IF p = req.body.pin
                THEN PinEntry(req.body.mode, req.body.initial_state = "true", NoPwm)
                ELSE g[p]]
      [] req.path = "/digital/write" -> SetLevel(g, req.body.pin, req.body.state)
      [] req.path = "/digital/high"  -> SetLevel(g, req.param, TRUE)
      [] req.path = "/digital/low"   -> SetLevel(g, req.param, FALSE)
      [] req.path = "/pins/predefined/high" -> SetLevel(g, PredefinedTable[req.param], TRUE)
      [] req.path = "/pins/predefined/low"  -> SetLevel(g, PredefinedTable[req.param], FALSE)
      [] req.path = "/pins/predefined/digital" ->
            SetLevel(g, PredefinedTable[req.param], req.body.state)
      [] req.path = "/pins/predefined/pwm" ->
            [g EXCEPT ![PredefinedTable[req.param]].pwm =
                Pwm(DefaultFrequency, DutyValue(req.body.duty_cycle))]
      [] req.path = "/pwm/start" ->
            [g EXCEPT ![req.body.pin].pwm =
                Pwm(req.body.frequency, DutyValue(req.body.duty_cycle))]
      [] req.path = "/pwm/update" ->
            [g EXCEPT ![req.body.pin].pwm =
                Pwm(g[req.body.pin].pwm[1].frequency, DutyValue(req.body.duty_cycle))]
      [] req.path = "/pwm/stop" -> [g EXCEPT ![req.param].pwm = NoPwm]
      [] req.path = "/pins/cleanup" -> EmptyMap
      [] OTHER -> g

\* the motor pin levels after an accepted request
ServerMotor(req, m) ==
    CASE req.path \in {"/motor/forward", "/motor/left", "/motor/spin-left"} -> MotorAll(TRUE)
      [] req.path \in {"/motor/backward", "/motor/right", "/motor/spin-right",
                       "/motor/stop", "/pins/cleanup"} -> MotorAll(FALSE)
      [] req.path = "/motor/tank" -> MotorAll(req.body.left_speed > 0)
      [] OTHER -> m

\* parsed response bodies
Data(t, p, a, d, m) ==
    [t |-> t, pins |-> p, available_pins |-> a, predefined_pins |-> d, motor_status |-> m]
NoData == Data("none", Undefined, Undefined, Undefined, Undefined)
NullData == Data("null", Undefined, Undefined, Undefined, Undefined)
EmptyObject == Data("object", Undefined, Undefined, Undefined, Undefined)
Unparseable == Data("unparseable", Undefined, Undefined, Undefined, Undefined)

\* the well-formed body of a successful response
FullBody(req, g, m) ==
    CASE req.path = "/pins/all" ->
            Data("object", Obj(g), Obj(AvailableOf(g)), Undefined, Undefined)
      [] req.path = "/pins/predefined" ->
            Data("object", Undefined, Undefined, Obj(PredefinedTable), Undefined)
      [] req.path = "/motor/status" ->
            Data("object", Undefined, Undefined, Undefined, Obj(m))
      [] OTHER -> EmptyObject

\* bodies a 2xx response may carry, given the well-formed one: itself, an object
\* without the expected fields, JSON null, or bytes that are not JSON
OkBodies(req, full) ==
    IF req.method = "GET" /\ req.path # "/"
    THEN {full, EmptyObject, NullData, Unparseable}
    ELSE {full, Unparseable}

\* what the service did with a request: kind "ok" (handled, body: the well-formed
\* response body) or "fail" (not handled: a 4xx/5xx answer or no answer at all)
Outcome(kind, body) == [kind |-> kind, body |-> body]
NoOut == Outcome("none", NoData)
\* the ways a request fails: no response, or a 4xx/5xx response whose body is
\* {"detail": ...}, JSON without detail, or not JSON
Failure(kind, detail) == [kind |-> kind, detail |-> detail]
Failures == {Failure("transport", ""), Failure("http", "unparseable")}
            \cup {Failure("http", d) : d \in {"detail", "nodetail", "unparseable"}}
ParseFailure == Failure("parse", "")

-----------------------------------------------------------------------------
(* Strings: sequences of one-character strings                             *)

LowerChar(c) ==
    CASE c = "P" -> "p"
      [] c = "E" -> "e"
      [] c = "R" -> "r"
      [] c = "C" -> "c"
      [] c = "W" -> "w"
      [] OTHER -> c
toLowerCase(s) == [i \in 1..Len(s) |-> LowerChar(s[i])]

RECURSIVE trimStart(_)
trimStart(s) == IF s # <<>> /\ Head(s) = " " THEN trimStart(Tail(s)) ELSE s
RECURSIVE trimEnd(_)
trimEnd(s) ==
    IF s # <<>> /\ s[Len(s)] = " " THEN trimEnd(SubSeq(s, 1, Len(s) - 1)) ELSE s
trim(s) == trimEnd(trimStart(s))

\* s.includes(sub)
includes(s, sub) ==
    \E i \in 0..(Len(s) - Len(sub)) : SubSeq(s, i + 1, i + Len(sub)) = sub

\* the predicate both target checks hand to detectionInfo.find
MatchesTarget(det, target) ==
    includes(toLowerCase(det.class), toLowerCase(trim(target)))

\* detectionInfo.find(...) is not undefined
HasMatch(dets, target) == \E i \in 1..Len(dets) : MatchesTarget(dets[i], target)

-----------------------------------------------------------------------------
(* Camera session: startCamera                                             *)

\* sockets one behaviour may create
MaxSockets == 2

\* startCamera(): `new WebSocket` either yields a socket in CONNECTING, which ws
\* then refers to, or throws (the catch sets cameraConnected = false)
StartCameraCall(throws) ==
    IF throws
    THEN /\ cameraConnected' = FALSE
         /\ UNCHANGED <<ws, socks>>
    ELSE /\ socks' = Append(socks, "CONNECTING")
         /\ ws' = Len(socks) + 1
         /\ UNCHANGED cameraConnected

-----------------------------------------------------------------------------
(* GPIO dashboard: makeRequest and the loaders                             *)

Truthy(data) == data.t = "object"

\* Error.message of what makeRequest's try block throws
ErrorMessage(v, f) ==
    CASE f.kind = "transport" -> "Failed to fetch"
      [] f.kind = "http" /\ f.detail = "detail" -> "server detail"
      [] f.kind = "http" /\ f.detail = "nodetail" -> "Request failed"
      [] f.kind = "http" /\ f.detail = "unparseable" ->
            IF v = "page" THEN "Request failed" ELSE "SyntaxError"
      [] OTHER -> "SyntaxError"

\* loadAllPins once makeRequest has returned data: the new pins and availablePins
LoadAllPinsMerging(v, data, p, a) ==
    IF Truthy(data)
    THEN [pins |-> Obj([k \in DOMAIN p.m \cup DOMAIN data.pins.m |->
                          IF k \in DOMAIN data.pins.m THEN data.pins.m[k] ELSE p.m[k]]),
          availablePins |-> data.available_pins]
    ELSE [pins |-> p, availablePins |-> a]
LoadAllPinsPinsOnly(v, data, p, a) ==
    IF Truthy(data)
    THEN [pins |-> IF v = "page" THEN OrElse(data.pins, Obj(EmptyMap)) ELSE data.pins,
          availablePins |-> a]
    ELSE [pins |-> p, availablePins |-> a]
LoadAllPinsApply(v, data, p, a) ==
    IF Truthy(data)
    THEN IF v = "page"
         THEN [pins |-> OrElse(data.pins, Obj(EmptyMap)),
               availablePins |-> OrElse(data.available_pins, Obj(EmptyMap))]
         ELSE [pins |-> data.pins, availablePins |-> data.available_pins]
    ELSE [pins |-> p, availablePins |-> a]

\* loadPredefinedPins once makeRequest has returned data
LoadPredefinedPinsApply(v, data, d) ==
    IF Truthy(data)
    THEN IF v = "page" THEN OrElse(data.predefined_pins, Obj(EmptyMap))
                       ELSE data.predefined_pins
    ELSE d

\* loadMotorStatus once makeRequest has returned data
LoadMotorStatusKeepsFirst(v, data, m) ==
    IF Truthy(data) /\ m.m = EmptyMap THEN data.motor_status ELSE m
LoadMotorStatusApply(v, data, m) ==
    IF Truthy(data)
    THEN IF v = "page" THEN OrElse(data.motor_status, Obj(EmptyMap))
                       ELSE data.motor_status
    ELSE m

-----------------------------------------------------------------------------
(* GPIO dashboard: tasks                                                   *)

Task(op, origin, cur, todo, req) ==
    [op |-> op, origin |-> origin, cur |-> cur, todo |-> todo,
     pc |-> "fetch", req |-> req, out |-> NoOut]
Idle == [op |-> "idle", origin |-> "", cur |-> "", todo |-> <<>>,
         pc |-> "", req |-> NoReq, out |-> NoOut]

FreeSlots == {i \in 1..MaxTasks : tasks[i].op = "idle"}
Slot == CHOOSE i \in FreeSlots : \A j \in FreeSlots : i <= j

\* what makeRequest signalled to its caller on a failure: the Error.message it
\* threw ("" when it returned instead)
NoThrow == [failure |-> Failure("", ""), message |-> ""]
MakeRequestThrows(v, f) ==
    [failure |-> f, message |-> IF v = "part000" THEN "" ELSE ErrorMessage(v, f)]

\* the last step: the invocation (op, origin) it belongs to, the request it sent,
\* the stage whose makeRequest resolved in it and how (outcome, failure), the
\* data handed to the loader, the alert shown
Ev(act, op, origin, sent, stage, outcome, alert, data) ==
    [op |-> op, origin |-> origin, sent |-> sent, stage |-> stage,
     outcome |-> outcome, alert |-> alert, data |-> data, late |-> FALSE,
     thrown |-> NoThrow]

\* observer of togglePin: how many togglePin invocations in a row (n) were each
\* started with no other request of this client unresolved, with the mirror
\* holding the remote level of the pin, and had their write applied; orig is
\* the remote level before the first of them
NoTog == [pin |-> 0, n |-> 0, orig |-> FALSE, open |-> FALSE, slot |-> 0, clean |-> FALSE]
RemoteLevel(pin) == pin \in DOMAIN gpio /\ gpio[pin].state
MirrorFresh(pin) ==
    /\ pin \in DOMAIN gpio
    /\ pins.t = "object"
    /\ pin \in DOMAIN pins.m
    /\ pins.m[pin].state = gpio[pin].state
TogOnInvoke(op, pin, slot) ==
    IF op # "togglePin" THEN NoTog
    ELSE IF tog.n = 1 /\ tog.pin = pin /\ ~tog.open
    THEN [tog EXCEPT !.n = 2, !.open = TRUE, !.slot = slot,
                     !.clean = tog.clean /\ MirrorFresh(pin)]
    ELSE [pin |-> pin, n |-> 1, orig |-> RemoteLevel(pin), open |-> TRUE,
          slot |-> slot, clean |-> MirrorFresh(pin)]
TogOnServer(i, g) ==
    IF /\ tog.n > 0
       /\ ~(tog.open /\ i = tog.slot /\ tasks[i].cur = "cmd")
       /\ (tog.pin \in DOMAIN g /\ g[tog.pin].state) # RemoteLevel(tog.pin)
    THEN [tog EXCEPT !.clean = FALSE]
    ELSE tog
TogOnResolve(i, cmdFailed, finished) ==
    IF tog.open /\ i = tog.slot
    THEN [tog EXCEPT !.clean = tog.clean /\ ~cmdFailed, !.open = ~finished]
    ELSE tog

\* observer of concurrent refreshes.  race[i].older: the tasks whose request
\* for the same mapping was in flight when task i sent its current request;
\* race[i].late: a request for the same mapping that was sent after the current
\* request of task i has been answered and applied while that of i is in flight
RefreshStages == {"pins", "predefined", "motor"}
NoRace == [older |-> {}, late |-> FALSE]
RaceOnSend(r, i, cur) ==
    [r EXCEPT ![i] =
        [older |-> IF cur \in RefreshStages
                   THEN {j \in (1..MaxTasks) \ {i} :
                            tasks[j].op # "idle" /\ tasks[j].cur = cur}
                   ELSE {},
         late |-> FALSE]]
RaceOnResolve(i, applied) ==
    [k \in 1..MaxTasks |->
        IF k = i THEN NoRace
        ELSE [older |-> race[k].older \ {i},
              late |-> race[k].late \/ (applied /\ k \in race[i].older)]]

-----------------------------------------------------------------------------
(* GPIO dashboard: actions                                                 *)

mirrorVars == <<pins, availablePins, predefinedPins, motorStatus>>
serverVars == <<gpio, motor>>
camRest == <<camTimers, imgUrl, urls, nextUrl, detectionInfo, objectDetected,
             findObject, foundTarget, camEv>>
epilogueVars == <<tankLeftSpeed, tankRightSpeed, moving, refreshInterval,
                  ws, socks, cameraConnected>>

\* the finally block of moveForward runs whether or not its catch block ran
MovingReleasedOnSuccessOnly(op, aborted) == op = "moveForward" /\ ~aborted
MovingReleased(op, aborted) == op = "moveForward"

\* what an invocation does after its last await (aborted: its catch block ran)
Epilogue(t, aborted) ==
    /\ IF t.op = "stopMotors" /\ ~aborted
       THEN tankLeftSpeed' = 0 /\ tankRightSpeed' = 0
       ELSE UNCHANGED <<tankLeftSpeed, tankRightSpeed>>
    /\ IF MovingReleased(t.op, aborted) /\ variant = "page"
       THEN moving' = FALSE
       ELSE UNCHANGED moving
    /\ IF t.op = "onMount"
       THEN /\ refreshInterval' = IF variant = "part002" THEN refreshInterval ELSE "set"
            /\ IF variant = "page"
               THEN \E throws \in BOOLEAN : StartCameraCall(throws)
               ELSE UNCHANGED <<ws, socks, cameraConnected>>
       ELSE UNCHANGED <<refreshInterval, ws, socks, cameraConnected>>

\* the invocation goes on after makeRequest has returned or thrown: its catch
\* block (abort), its next await, or its end
Proceed(i, t, abort, alert, outcome, data, thrown) ==
    IF abort
    THEN /\ tasks' = [tasks EXCEPT ![i] = Idle]
         /\ ev' = [Ev("resolve", t.op, t.origin, NoReq, t.cur, outcome, alert, data)
                      EXCEPT !.late = race[i].late, !.thrown = thrown]
         /\ tog' = TogOnResolve(i, TRUE, TRUE)
         /\ race' = RaceOnResolve(i, FALSE)
         /\ Epilogue(t, TRUE)
    ELSE IF t.todo # <<>>
    THEN /\ tasks' = [tasks EXCEPT ![i] =
                Task(t.op, t.origin, Head(t.todo), Tail(t.todo), StageReq(Head(t.todo)))]
         /\ ev' = [Ev("resolve", t.op, t.origin, StageReq(Head(t.todo)), t.cur,
                       outcome, alert, data)
                      EXCEPT !.late = race[i].late, !.thrown = thrown]
         /\ tog' = TogOnResolve(i, t.cur = "cmd" /\ outcome # "ok", FALSE)
         /\ race' = RaceOnSend(RaceOnResolve(i, outcome = "ok" /\ t.cur \in RefreshStages),
                               i, Head(t.todo))
         /\ UNCHANGED epilogueVars
    ELSE /\ tasks' = [tasks EXCEPT ![i] = Idle]
         /\ ev' = [Ev("resolve", t.op, t.origin, NoReq, t.cur, outcome, alert, data)
                      EXCEPT !.late = race[i].late, !.thrown = thrown]
         /\ tog' = TogOnResolve(i, t.cur = "cmd" /\ outcome # "ok", TRUE)
         /\ race' = RaceOnResolve(i, outcome = "ok" /\ t.cur \in RefreshStages)
         /\ Epilogue(t, FALSE)

\* whether a failed makeRequest ends the invocation in its catch block:
\* +page.svelte and part_002 rethrow, part_000 returns null and the caller goes on
CommandAbortsOnAnyFailure(v, cur) == v # "part000"
CommandAborts(v, cur) == v # "part000" /\ cur = "cmd"

\* a loader's `if (data) { ... }` on what makeRequest returned
ApplyLoadAlsoOnCommand(cur, data) ==
    LET loaded == LoadAllPinsApply(variant, data, pins, availablePins) IN
    /\ pins' = IF cur \in {"pins", "cmd"} THEN loaded.pins ELSE pins
    /\ availablePins' = IF cur \in {"pins", "cmd"} THEN loaded.availablePins
                                                  ELSE availablePins
    /\ predefinedPins' =
            IF cur = "predefined"
            THEN LoadPredefinedPinsApply(variant, data, predefinedPins)
            ELSE predefinedPins
    /\ motorStatus' =
            IF cur = "motor"
            THEN LoadMotorStatusApply(variant, data, motorStatus)
            ELSE motorStatus
ApplyLoad(cur, data) ==
    LET loaded == LoadAllPinsApply(variant, data, pins, availablePins) IN
    /\ pins' = IF cur = "pins" THEN loaded.pins ELSE pins
    /\ availablePins' = IF cur = "pins" THEN loaded.availablePins ELSE availablePins
    /\ predefinedPins' =
            IF cur = "predefined"
            THEN LoadPredefinedPinsApply(variant, data, predefinedPins)
            ELSE predefinedPins
    /\ motorStatus' =
            IF cur = "motor"
            THEN LoadMotorStatusApply(variant, data, motorStatus)
            ELSE motorStatus

\* the alert a failed makeRequest leads to: in +page.svelte the one of the
\* command's catch block, in part_002 the one of makeRequest's own catch block
FailureAlert(v, cur, f) ==
    CASE v = "page" /\ cur = "cmd" -> ErrorMessage(v, f)
      [] v = "part002" -> ErrorMessage(v, f)
      [] OTHER -> ""

\* makeRequest fails: its catch block, then the caller: in +page.svelte and
\* part_002 the caller's catch block, in part_000 the caller's next statement
\* with data = null
MakeRequestFailed(i, t, f) ==
    /\ connectionStatus' = "error"
    /\ IF variant = "part000" THEN ApplyLoad(t.cur, NullData) ELSE UNCHANGED mirrorVars
    /\ Proceed(i, t, CommandAborts(variant, t.cur), FailureAlert(variant, t.cur, f),
               f.kind, NoData, MakeRequestThrows(variant, f))

\* the remote service handles the request of task i, whose response then
\* reaches the client: the server part of the step in which fetch resolves
ServerHandle(i) ==
    /\ ServerAccepts(tasks[i].req, gpio)
    /\ gpio' = ServerGpio(tasks[i].req, gpio)
    /\ motor' = ServerMotor(tasks[i].req, motor)
    /\ tog' = TogOnServer(i, ServerGpio(tasks[i].req, gpio))

\* makeRequest after `await fetch(...)`: a 2xx response (the service has handled
\* the request) or a failure (the service has not)
MakeRequestFetched(i) ==
    /\ tasks[i].op # "idle" /\ tasks[i].pc = "fetch" /\ tasks[i].cur # "probe"
    /\ LET t == tasks[i] IN
       \/ /\ ServerHandle(i)
          /\ connectionStatus' = "connected"
          /\ tasks' = [tasks EXCEPT ![i] =
                [t EXCEPT !.pc = "json",
                          !.out = Outcome("ok", FullBody(t.req, ServerGpio(t.req, gpio),
                                                         ServerMotor(t.req, motor)))]]
          /\ ev' = Ev("fetched", t.op, t.origin, NoReq, t.cur, "", "", NoData)
          /\ UNCHANGED <<mirrorVars, epilogueVars, race>>
          /\ UNCHANGED faults
       \/ /\ ServerAccepts(t.req, gpio)
          /\ faults < MaxFaults
          /\ faults' = faults + 1
          /\ \E f \in Failures : MakeRequestFailed(i, t, f)
          /\ UNCHANGED serverVars
       \/ /\ ~ServerAccepts(t.req, gpio)
          /\ MakeRequestFailed(i, t, Failure("http", "detail"))
          /\ UNCHANGED <<serverVars, faults>>
    /\ UNCHANGED <<variant, lifecycle, invocations, camRest, tankVars, carVars>>

\* makeRequest after `await response.json()` of a 2xx response, then the
\* loader or command that awaited makeRequest
MakeRequestParsed(i) ==
    /\ tasks[i].op # "idle" /\ tasks[i].pc = "json"
    /\ LET t == tasks[i] IN
       \E data \in OkBodies(t.req, t.out.body) :
          /\ IF data = t.out.body
             THEN UNCHANGED faults
             ELSE faults < MaxFaults /\ faults' = faults + 1
          /\ IF data.t = "unparseable"
             THEN MakeRequestFailed(i, t, ParseFailure)
             ELSE /\ UNCHANGED connectionStatus
                  /\ ApplyLoad(t.cur, data)
                  /\ Proceed(i, t, FALSE, "", "ok", data, NoThrow)
    /\ UNCHANGED <<variant, lifecycle, serverVars, invocations, camRest, tankVars, carVars>>

\* checkConnection after `await fetch(apiUrl + '/')`
CheckConnectionFetched(i) ==
    /\ tasks[i].op # "idle" /\ tasks[i].pc = "fetch" /\ tasks[i].cur = "probe"
    /\ LET t == tasks[i] IN
       \E r \in {"ok", "http", "transport"} :
          /\ IF r = "ok"
             THEN UNCHANGED faults
             ELSE faults < MaxFaults /\ faults' = faults + 1
          /\ connectionStatus' =
                CASE r = "ok" -> "connected"
                  [] r = "transport" -> "error"
                  [] OTHER -> connectionStatus
          /\ Proceed(i, t, FALSE, "", r, NoData, NoThrow)
    /\ UNCHANGED <<variant, lifecycle, mirrorVars, serverVars, invocations, camRest,
                   tankVars, carVars>>

Args(pin, mode, name, duty, left, right, speed) ==
    [pin |-> pin, mode |-> mode, name |-> name, duty |-> duty,
     left |-> left, right |-> right, speed |-> speed]
PinArg(pin)   == Args(pin, "", "", <<>>, 0, 0, 0)
\* the arguments of a part_002 handler, or what it reads from the bound form
FormArgs(pin, mode, name, duty, state) ==
    [pin |-> pin, mode |-> mode, name |-> name, duty |-> duty,
     left |-> 0, right |-> 0, speed |-> 0, state |-> state]
NoArgs        == PinArg(0)

dashRest == <<variant, connectionStatus, mirrorVars, lifecycle, serverVars,
              refreshInterval, camVars, tankVars, carVars>>

\* a command handler up to its first await: the request is built and sent
Command(op, a) ==
    /\ lifecycle = "mounted"
    /\ FreeSlots # {}
    /\ invocations < MaxInvocations
    /\ invocations' = invocations + 1
    /\ UNCHANGED faults
    /\ LET req == CommandReq(variant, op, a, pins) IN
       /\ tasks' = [tasks EXCEPT ![Slot] =
                        Task(op, "user", "cmd", CommandRefreshes(variant, op), req)]
       /\ ev' = Ev("invoke", op, "user", req, "", "", "", NoData)
    /\ tog' = TogOnInvoke(op, a.pin, Slot)
    /\ race' = RaceOnSend(race, Slot, "cmd")

\* pins[pin] on a mirror that is undefined throws a TypeError before anything is
\* sent (part_000 has no try block: the rejection is unhandled)
Throws(op) ==
    /\ lifecycle = "mounted"
    /\ pins.t = "undefined"
    /\ invocations < MaxInvocations
    /\ invocations' = invocations + 1
    /\ UNCHANGED faults
    /\ ev' = Ev("invoke", op, "user", NoReq, "", "TypeError", "", NoData)
    /\ tog' = NoTog
    /\ UNCHANGED <<tasks, race>>

QuickConfigurePin ==
    /\ \E pin \in Pins, mode \in Modes :
          Command("quickConfigurePin", Args(pin, mode, "", <<>>, 0, 0, 0))
    /\ UNCHANGED <<dashRest, tankLeftSpeed, tankRightSpeed, moving>>

TogglePin ==
    /\ \E pin \in Pins :
          IF pins.t = "undefined" THEN Throws("togglePin")
                                  ELSE Command("togglePin", PinArg(pin))
    /\ UNCHANGED <<dashRest, tankLeftSpeed, tankRightSpeed, moving>>

SetPinHigh ==
    /\ \E pin \in Pins : Command("setPinHigh", PinArg(pin))
    /\ UNCHANGED <<dashRest, tankLeftSpeed, tankRightSpeed, moving>>

SetPinLow ==
    /\ \E pin \in Pins : Command("setPinLow", PinArg(pin))
    /\ UNCHANGED <<dashRest, tankLeftSpeed, tankRightSpeed, moving>>

SetPredefinedPinHigh ==
    /\ \E name \in PredefinedNames :
          Command("setPredefinedPinHigh", Args(0, "", name, <<>>, 0, 0, 0))
    /\ UNCHANGED <<dashRest, tankLeftSpeed, tankRightSpeed, moving>>

SetPredefinedPinLow ==
    /\ \E name \in PredefinedNames :
          Command("setPredefinedPinLow", Args(0, "", name, <<>>, 0, 0, 0))
    /\ UNCHANGED <<dashRest, tankLeftSpeed, tankRightSpeed, moving>>

\* the tank sliders: bind:value, then on:input calls tankDrive
TankLeftInput ==
    /\ \E v \in TankSpeeds :
          /\ tankLeftSpeed' = v
          /\ Command("tankDrive", Args(0, "", "", <<>>, v, tankRightSpeed, 0))
    /\ UNCHANGED <<dashRest, tankRightSpeed, moving>>

TankRightInput ==
    /\ \E v \in TankSpeeds :
          /\ tankRightSpeed' = v
          /\ Command("tankDrive", Args(0, "", "", <<>>, tankLeftSpeed, v, 0))
    /\ UNCHANGED <<dashRest, tankLeftSpeed, moving>>

\* moveForward: in +page.svelte behind the `moving` guard and the target gate
\* `if (moving) return;` at the entry of moveForward
MoveForwardNeverBusy(m) == FALSE
MoveForwardBusy(m) == m

MoveForward ==
    /\ lifecycle = "mounted"
    /\ IF variant = "page"
       THEN IF MoveForwardBusy(moving)
            THEN /\ ev' = Ev("invoke", "moveForward", "user", NoReq, "", "busy", "", NoData)
                 /\ invocations < MaxInvocations
                 /\ invocations' = invocations + 1
                 /\ UNCHANGED faults
                 /\ UNCHANGED <<tasks, moving, tog, race>>
            ELSE IF /\ Len(detectionInfo) > 0
                    /\ trim(findObject) # <<>>
                    /\ ~HasMatch(detectionInfo, findObject)
            THEN /\ ev' = Ev("invoke", "moveForward", "user", NoReq, "", "gated",
                             "Object detected! Cannot move forward unless target object is found.",
                             NoData)
                 /\ tog' = NoTog
                 /\ invocations < MaxInvocations
                 /\ invocations' = invocations + 1
                 /\ UNCHANGED faults
                 /\ UNCHANGED <<tasks, moving, race>>
            ELSE /\ moving' = TRUE
                 /\ Command("moveForward", Args(0, "", "", <<>>, 0, 0, directionalSpeed))
       ELSE /\ Command("moveForward", Args(0, "", "", <<>>, 0, 0, directionalSpeed))
            /\ UNCHANGED moving
    /\ UNCHANGED <<dashRest, tankLeftSpeed, tankRightSpeed>>

\* moveBackward, turnLeft, turnRight, spinLeft, spinRight
Drive ==
    /\ \E op \in SpeedOps \ {"moveForward"} :
          Command(op, Args(0, "", "", <<>>, 0, 0, directionalSpeed))
    /\ UNCHANGED <<dashRest, tankLeftSpeed, tankRightSpeed, moving>>

StopMotors ==
    /\ Command("stopMotors", NoArgs)
    /\ UNCHANGED <<dashRest, tankLeftSpeed, tankRightSpeed, moving>>

SetPWM ==
    /\ \E pin \in Pins, dutyCycle \in DutyInputs :
          IF pins.t = "undefined"
          THEN Throws("setPWM")
          ELSE Command("setPWM", Args(pin, "", "", dutyCycle, 0, 0, 0))
    /\ UNCHANGED <<dashRest, tankLeftSpeed, tankRightSpeed, moving>>

StopPWM ==
    /\ \E pin \in Pins : Command("stopPWM", PinArg(pin))
    /\ UNCHANGED <<dashRest, tankLeftSpeed, tankRightSpeed, moving>>

CleanupAllPins ==
    /\ Command("cleanupAllPins", NoArgs)
    /\ UNCHANGED <<dashRest, tankLeftSpeed, tankRightSpeed, moving>>

\* part_002: the forms and the per-pin buttons.  The handlers submitted from a
\* form read newPinConfig, digitalWriteData and pwmConfig, which the user has
\* bound to any values before.
ConfigurePin ==
    /\ \E pin \in Pins, mode \in Modes, initial_state \in BOOLEAN :
          Command("configurePin", FormArgs(pin, mode, "", <<>>, initial_state))
    /\ UNCHANGED <<dashRest, tankLeftSpeed, tankRightSpeed, moving>>

DigitalWrite ==
    /\ \E pin \in Pins, state \in BOOLEAN :
          Command("digitalWrite", FormArgs(pin, "", "", <<>>, state))
    /\ UNCHANGED <<dashRest, tankLeftSpeed, tankRightSpeed, moving>>

DigitalRead ==
    /\ \E pin \in Pins : Command("digitalRead", PinArg(pin))
    /\ UNCHANGED <<dashRest, tankLeftSpeed, tankRightSpeed, moving>>

StartPWM ==
    /\ \E pin \in Pins, duty_cycle \in DutyInputs :
          Command("startPWM", FormArgs(pin, "", "", duty_cycle, FALSE))
    /\ UNCHANGED <<dashRest, tankLeftSpeed, tankRightSpeed, moving>>

UpdatePWM ==
    /\ \E pin \in Pins, dutyCycle \in DutyInputs :
          Command("updatePWM", FormArgs(pin, "", "", dutyCycle, FALSE))
    /\ UNCHANGED <<dashRest, tankLeftSpeed, tankRightSpeed, moving>>

TogglePredefinedPin ==
    /\ \E pinName \in PredefinedNames, currentState \in BOOLEAN :
          Command("togglePredefinedPin", FormArgs(0, "", pinName, <<>>, currentState))
    /\ UNCHANGED <<dashRest, tankLeftSpeed, tankRightSpeed, moving>>

UpdatePredefinedPWM ==
    /\ \E pinName \in PredefinedNames, dutyCycle \in DutyInputs :
          Command("updatePredefinedPWM", FormArgs(0, "", pinName, dutyCycle, FALSE))
    /\ UNCHANGED <<dashRest, tankLeftSpeed, tankRightSpeed, moving>>

\* the Refresh button: checkConnection in +page.svelte, loadAllPins in part_000
\* and part_002
RefreshClick ==
    /\ lifecycle = "mounted"
    /\ FreeSlots # {}
    /\ invocations < MaxInvocations
    /\ invocations' = invocations + 1
    /\ UNCHANGED faults
    /\ LET cur == IF variant = "page" THEN "probe" ELSE "pins"
           op  == IF variant = "page" THEN "checkConnection" ELSE "loadAllPins"
       IN /\ tasks' = [tasks EXCEPT ![Slot] = Task(op, "user", cur, <<>>, StageReq(cur))]
          /\ ev' = Ev("invoke", op, "user", StageReq(cur), "", "", "", NoData)
          /\ race' = RaceOnSend(race, Slot, cur)
    /\ tog' = NoTog
    /\ UNCHANGED <<dashRest, tankLeftSpeed, tankRightSpeed, moving>>

\* the setInterval callback
TimerTick ==
    /\ refreshInterval = "set"
    /\ invocations < MaxInvocations
    /\ invocations' = invocations + 1
    /\ UNCHANGED faults
    /\ IF connectionStatus = "connected"
       THEN /\ FreeSlots # {}
            /\ tasks' = [tasks EXCEPT ![Slot] =
                            Task("tick", "timer", "pins", <<"motor">>, GetPins)]
            /\ ev' = Ev("invoke", "tick", "timer", GetPins, "", "", "", NoData)
            /\ race' = RaceOnSend(race, Slot, "pins")
       ELSE /\ ev' = Ev("invoke", "tick", "timer", NoReq, "", "", "", NoData)
            /\ UNCHANGED <<tasks, race>>
    /\ UNCHANGED <<dashRest, tankLeftSpeed, tankRightSpeed, moving, tog>>

\* the component is destroyed.  onMount was given an async callback, so what it
\* returned to Svelte is a Promise, not the cleanup function: Svelte has nothing
\* to call, and clearInterval / ws.close() of the cleanup never run
Destroy ==
    /\ lifecycle = "mounted"
    /\ lifecycle' = "destroyed"
    /\ ev' = Ev("destroy", "", "", NoReq, "", "", "", NoData)
    /\ UNCHANGED <<variant, connectionStatus, mirrorVars, serverVars, tasks, tog, race,
                   invocations, faults, epilogueVars, camRest, tankVars, carVars>>

-----------------------------------------------------------------------------
(* Camera session of +page.svelte: the handlers startCamera installs        *)

\* object URLs one behaviour may create
MaxFrames == 2

\* detection batches the proxy may push (info.detections), and the absent field
Car == [class |-> <<"c", "a", "r">>, confidence |-> 1]
Person == [class |-> <<"P", "e", "r", "s", "o", "n">>, confidence |-> 1]
Batches == {<<>>, <<Car>>, <<Car, Person>>}
\* what the user may type into the target field
Targets == {<<" ">>, <<"p", "e", "r">>, <<"z", "z", "z">>}

CamEv(act, k) == [act |-> act]

\* a field of a parsed JSON message: absent, or present with a value
Absent == <<>>
Some(value) == <<value>>
\* `field || d` where d is [] or false: d when the field is absent (a present
\* false gives false, a present list is truthy even when empty)
OrDefault(field, d) == IF field = Absent THEN d ELSE field[1]

\* the text messages the proxy may push on the camera socket
CamMessages == {[detections |-> d] : d \in {Absent} \cup {Some(b) : b \in Batches}}

\* `info.detections || []` and `data.detections || []`: the new list, given the
\* message and the list held so far
DetectionsAppending(data, previous) == previous \o OrDefault(data.detections, <<>>)
Detections(data, previous) == OrDefault(data.detections, <<>>)

\* objectDetected = detectionInfo.length > 0
ObjectDetectedOnAnyMessage(dets) == TRUE
ObjectDetected(dets) == Len(dets) > 0

\* checkAndMoveForward(): the new value of foundTarget
CheckAndMoveForward(detected, dets, target, found) ==
    IF ~detected \/ trim(target) = <<>>
    THEN found
    ELSE HasMatch(dets, target)

\* the revoke-then-create of the ArrayBuffer branch: the live object URLs after it
FrameUrlsLeaking(live, current, new) == live \cup {new}
FrameUrls(live, current, new) ==
    (IF current # 0 THEN live \ {current} ELSE live) \cup {new}

camSock == <<ws, socks, cameraConnected>>
camMedia == <<imgUrl, urls, nextUrl>>
camDetect == <<detectionInfo, objectDetected, foundTarget>>

\* the Start/Restart Camera button
StartCameraClick ==
    /\ lifecycle = "mounted"
    /\ Len(socks) < MaxSockets
    /\ \E throws \in BOOLEAN : StartCameraCall(throws)
    /\ camEv' = CamEv("startCamera", 0)
    /\ UNCHANGED <<dashVars, tankVars, carVars, camTimers, camMedia, camDetect, findObject>>

\* ws.onopen of socket k
CamOnOpen(k) ==
    /\ socks[k] = "CONNECTING"
    /\ socks' = [socks EXCEPT ![k] = "OPEN"]
    /\ cameraConnected' = TRUE
    /\ camEv' = CamEv("onopen", k)
    /\ UNCHANGED <<dashVars, tankVars, carVars, ws, camTimers, camMedia, camDetect, findObject>>

\* ws.onerror of socket k: the connection failed; its close event follows
CamOnError(k) ==
    /\ socks[k] \in {"CONNECTING", "OPEN"}
    /\ socks' = [socks EXCEPT ![k] = "CLOSING"]
    /\ cameraConnected' = FALSE
    /\ camEv' = CamEv("onerror", k)
    /\ UNCHANGED <<dashVars, tankVars, carVars, ws, camTimers, camMedia, camDetect, findObject>>

\* ws.onclose of socket k: the peer closed it, or the connection failed
CamOnClose(k) ==
    /\ socks[k] \in {"CONNECTING", "OPEN", "CLOSING"}
    /\ socks' = [socks EXCEPT ![k] = "CLOSED"]
    /\ cameraConnected' = FALSE
    /\ camTimers' = camTimers + 1
    /\ camEv' = CamEv("onclose", k)
    /\ UNCHANGED <<dashVars, tankVars, carVars, ws, camMedia, camDetect, findObject>>

\* the callback of setTimeout(..., 3000) in ws.onclose
CamReconnectTimer ==
    /\ camTimers > 0
    /\ camTimers' = camTimers - 1
    /\ IF ~cameraConnected
       THEN /\ Len(socks) < MaxSockets
            /\ \E throws \in BOOLEAN : StartCameraCall(throws)
            /\ camEv' = CamEv("startCamera", 0)
       ELSE /\ camEv' = CamEv("timer", 0)
            /\ UNCHANGED camSock
    /\ UNCHANGED <<dashVars, tankVars, carVars, camMedia, camDetect, findObject>>

\* ws.onmessage of socket k with a string: JSON.parse, then the detections
CamOnText(k) ==
    /\ socks[k] = "OPEN"
    /\ \/ \E info \in CamMessages :
             LET dets == Detections(info, detectionInfo) IN
             /\ detectionInfo' = dets
             /\ objectDetected' = ObjectDetected(dets)
             /\ foundTarget' = CheckAndMoveForward(Len(dets) > 0, dets, findObject,
                                                   foundTarget)
             /\ camEv' = [act |-> "text", info |-> info]
       \/ /\ camEv' = CamEv("malformed", k)    \* JSON.parse throws: caught, logged
          /\ UNCHANGED camDetect
    /\ UNCHANGED <<dashVars, tankVars, carVars, camSock, camTimers, camMedia, findObject>>

\* ws.onmessage of socket k with an ArrayBuffer: the next frame
CamOnFrame(k) ==
    /\ socks[k] = "OPEN"
    /\ nextUrl < MaxFrames
    /\ nextUrl' = nextUrl + 1
    /\ urls' = FrameUrls(urls, imgUrl, nextUrl + 1)
    /\ imgUrl' = nextUrl + 1
    /\ camEv' = CamEv("frame", k)
    /\ UNCHANGED <<dashVars, tankVars, carVars, camSock, camTimers, camDetect, findObject>>

\* the target field: bind:value, then on:input calls checkAndMoveForward
FindObjectInput ==
    /\ lifecycle = "mounted"
    /\ \E v \in Targets :
          /\ findObject' = v
          /\ foundTarget' = CheckAndMoveForward(objectDetected, detectionInfo, v,
                                                foundTarget)
    /\ camEv' = CamEv("input", 0)
    /\ UNCHANGED <<dashVars, tankVars, carVars, camSock, camTimers, camMedia, detectionInfo,
                   objectDetected>>

-----------------------------------------------------------------------------
(* Tank-controller session of +page.svelte (second script)                  *)

TankEv(act, k, sent) == [act |-> act, sock |-> k, sent |-> sent]

tankSock == <<tankWs, tankSocks>>
tankUi == <<keysPressed, detectionEnabled>>

\* connectToBackend(): `new WebSocket` yields a socket in CONNECTING, which ws
\* then refers to, or throws (the catch sets connectionStatus = 'Error')
ConnectToBackend(throws) ==
    IF throws
    THEN /\ tankConnectionStatus' = "Error"
         /\ UNCHANGED tankSock
    ELSE /\ tankSocks' = Append(tankSocks, "CONNECTING")
         /\ tankWs' = Len(tankSocks) + 1
         /\ UNCHANGED tankConnectionStatus

\* requestStatus(): what it sends
RequestStatus(socksNow) ==
    IF tankWs # 0 /\ socksNow[tankWs] = "OPEN" THEN "get_status" ELSE ""

\* ws.onopen of socket k
TankOnOpen(k) ==
    /\ tankSocks[k] = "CONNECTING"
    /\ tankSocks' = [tankSocks EXCEPT ![k] = "OPEN"]
    /\ tankConnectionStatus' = "Connected"
    /\ tankEv' = TankEv("onopen", k, RequestStatus([tankSocks EXCEPT ![k] = "OPEN"]))
    /\ UNCHANGED <<dashVars, camVars, carVars, tankView, tankWs, tankTimers, tankDestroyed, tankUi>>

\* ws.onerror of socket k: the connection failed; its close event follows
TankOnError(k) ==
    /\ tankSocks[k] \in {"CONNECTING", "OPEN"}
    /\ tankSocks' = [tankSocks EXCEPT ![k] = "CLOSING"]
    /\ tankConnectionStatus' = "Error"
    /\ tankEv' = TankEv("onerror", k, "")
    /\ UNCHANGED <<dashVars, camVars, carVars, tankView, tankWs, tankTimers, tankDestroyed, tankUi>>

\* ws.onclose of socket k: the peer closed it, the connection failed, or the
\* closing handshake that ws.close() started has finished
TankOnClose(k) ==
    /\ tankSocks[k] \in {"CONNECTING", "OPEN", "CLOSING"}
    /\ tankSocks' = [tankSocks EXCEPT ![k] = "CLOSED"]
    /\ tankConnectionStatus' = "Disconnected"
    /\ tankTimers' = tankTimers + 1
    /\ tankEv' = TankEv("onclose", k, "")
    /\ UNCHANGED <<dashVars, camVars, carVars, tankView, tankWs, tankDestroyed, tankUi>>

\* the callback of setTimeout(connectToBackend, 3000)
TankReconnectTimer ==
    /\ tankTimers > 0
    /\ Len(tankSocks) < MaxSockets
    /\ tankTimers' = tankTimers - 1
    /\ \E throws \in BOOLEAN : ConnectToBackend(throws)
    /\ tankEv' = TankEv("connectToBackend", 0, "")
    /\ UNCHANGED <<dashVars, camVars, carVars, tankView, tankDestroyed, tankUi>>

\* onDestroy: ws.close() starts the closing handshake of the current socket
TankOnDestroy ==
    /\ ~tankDestroyed
    /\ tankDestroyed' = TRUE
    /\ tankSocks' = IF tankWs # 0 /\ tankSocks[tankWs] \in {"CONNECTING", "OPEN"}
                    THEN [tankSocks EXCEPT ![tankWs] = "CLOSING"]
                    ELSE tankSocks
    /\ tankEv' = TankEv("onDestroy", tankWs, "")
    /\ UNCHANGED <<dashVars, camVars, carVars, tankView, tankWs, tankTimers, tankConnectionStatus, tankUi>>

\* sendControlCommand(command): what it sends
SendControlCommandUnchecked(command) == command
SendControlCommand(command) ==
    IF tankWs # 0 /\ tankSocks[tankWs] = "OPEN" THEN command ELSE ""

\* keys the user may press, as event.key reports them
Keys == {"w", "W", "a", "x"}
MovementKeys == {"w", "s", "a", "d", "q", "e"}

\* a keyboard event observed: the key it reports and what the handler sent
KeyEv(act, key, sent) == [act |-> act, sock |-> tankWs, sent |-> sent, key |-> key]

\* the switch of handleKeyDown
KeyCommand(key) ==
    CASE LowerChar(key) = "w" -> "forward"
      [] LowerChar(key) = "s" -> "backward"
      [] LowerChar(key) = "a" -> "left"
      [] LowerChar(key) = "d" -> "right"
      [] LowerChar(key) = "q" -> "pivot_left"
      [] LowerChar(key) = "e" -> "pivot_right"
      [] OTHER -> ""

\* `if (keysPressed.has(event.key)) return;`
NeverRepeated(key, held) == FALSE
Repeated(key, held) == key \in held

\* handleKeyDown(event); onDestroy removed the listener
HandleKeyDown ==
    /\ ~tankDestroyed
    /\ \E key \in Keys :
          IF Repeated(key, keysPressed)
          THEN /\ tankEv' = KeyEv("keydown", key, "")
               /\ UNCHANGED keysPressed
          ELSE /\ keysPressed' = keysPressed \cup {key}
               /\ tankEv' = KeyEv("keydown", key, SendControlCommand(KeyCommand(key)))
    /\ UNCHANGED <<dashVars, camVars, carVars, tankView, tankSock, tankTimers, tankConnectionStatus,
                   tankDestroyed, detectionEnabled>>

\* handleKeyUp(event)
HandleKeyUp ==
    /\ ~tankDestroyed
    /\ \E key \in Keys :
          /\ keysPressed' = keysPressed \ {key}
          /\ tankEv' = KeyEv("keyup", key,
                             IF LowerChar(key) \in MovementKeys
                             THEN SendControlCommand("stop") ELSE "")
    /\ UNCHANGED <<dashVars, camVars, carVars, tankView, tankSock, tankTimers, tankConnectionStatus,
                   tankDestroyed, detectionEnabled>>

\* a change of a checkbox observed: the state the click gave the box, the
\* flag after the handlers ran, and what was sent (with `enabled` = the flag)
ChangeEv(act, checked, enabled, sent) ==
    [act |-> act, sock |-> tankWs, sent |-> sent, checked |-> checked, enabled |-> enabled]

\* The detection checkbox is clicked.  Its attributes are bind:checked and then
\* on:change, and Svelte attaches the two `change` listeners in that order: the
\* binding assigns the new checked state to detectionEnabled, and then
\* toggleDetection() negates detectionEnabled and sends it.
ToggleDetection ==
    /\ ~tankDestroyed
    /\ LET checked == ~detectionEnabled       \* the box showed detectionEnabled
           bound   == checked                 \* bind:checked={detectionEnabled}
           enabled == ~bound                  \* detectionEnabled = !detectionEnabled
       IN /\ detectionEnabled' = enabled
          /\ tankEv' = ChangeEv("toggleDetection", checked, enabled,
                                IF tankWs # 0 /\ tankSocks[tankWs] = "OPEN"
                                THEN "toggle_detection" ELSE "")
    /\ UNCHANGED <<dashVars, camVars, carVars, tankView, tankSock, tankTimers, tankConnectionStatus,
                   tankDestroyed, keysPressed>>

\* the auto-movement checkbox is clicked: bind:checked, then toggleAutoMovement()
ToggleAutoMovement ==
    /\ ~tankDestroyed
    /\ LET checked == ~autoMovementEnabled
           bound   == checked
           enabled == ~bound
       IN /\ autoMovementEnabled' = enabled
          /\ tankEv' = ChangeEv("toggleAutoMovement", checked, enabled,
                                IF tankWs # 0 /\ tankSocks[tankWs] = "OPEN"
                                THEN "toggle_auto_movement" ELSE "")
    /\ UNCHANGED <<dashVars, camVars, carVars, tankSock, tankTimers, tankConnectionStatus,
                   tankDestroyed, tankUi, currentFrame, detections,
                   currentTargetObjects, targetObjects, movementActive>>

\* setTargetObjects(), the Set button
SetTargetObjects ==
    /\ ~tankDestroyed
    /\ tankEv' = TankEv("setTargetObjects", tankWs,
                        IF tankWs # 0 /\ tankSocks[tankWs] = "OPEN"
                        THEN "set_target_objects" ELSE "")
    /\ UNCHANGED <<dashVars, camVars, carVars, tankView, tankSock, tankTimers, tankConnectionStatus,
                   tankDestroyed, tankUi>>

\* the movement buttons: on:mousedown sends the button's command
ButtonCommands == {"forward", "pivot_left"}
TankMouseDown ==
    /\ ~tankDestroyed
    /\ \E command \in ButtonCommands :
          tankEv' = TankEv("mousedown", tankWs, SendControlCommand(command))
    /\ UNCHANGED <<dashVars, camVars, carVars, tankView, tankSock, tankTimers, tankConnectionStatus,
                   tankDestroyed, tankUi>>

\* on:mouseup and on:mouseleave of a movement button, and the stop button
TankMouseUp ==
    /\ ~tankDestroyed
    /\ tankEv' = TankEv("mouseup", tankWs, SendControlCommand("stop"))
    /\ UNCHANGED <<dashVars, camVars, carVars, tankView, tankSock, tankTimers, tankConnectionStatus,
                   tankDestroyed, tankUi>>

\* messages of the backend, as JSON.parse returns them
NoFields ==
    [type |-> "", data |-> Absent, detections |-> Absent, target_objects |-> Absent,
     objects |-> Absent, auto_movement_enabled |-> Absent, movement_active |-> Absent,
     detection_enabled |-> Absent, enabled |-> Absent]
FrameMessages ==
    {[NoFields EXCEPT !.type = "frame", !.data = Some("/9j/"),
                      !.detections = d, !.target_objects = t,
                      !.auto_movement_enabled = a, !.movement_active = m] :
        d \in {Absent, Some(<<Car>>)}, t \in {Absent, Some(<<"person">>)},
        a \in {Absent, Some(TRUE)}, m \in {Absent, Some(TRUE)}}
\* the other messages carry every field their case reads, except the lists
OtherMessages ==
    {[NoFields EXCEPT !.type = "status", !.detection_enabled = Some(e),
                      !.auto_movement_enabled = Some(FALSE),
                      !.target_objects = Absent, !.movement_active = Some(FALSE)] :
        e \in BOOLEAN}
    \cup {[NoFields EXCEPT !.type = "detection_toggled", !.enabled = Some(FALSE)]}
    \cup {[NoFields EXCEPT !.type = "target_objects_set", !.objects = o] :
            o \in {Absent, Some(<<"person", "car">>)}}
    \cup {[NoFields EXCEPT !.type = "auto_movement_toggled", !.enabled = Some(TRUE)]}
    \cup {[NoFields EXCEPT !.type = "ir"]}
TankMessages == FrameMessages \cup OtherMessages

\* list.join(', ')
RECURSIVE Join(_)
Join(list) ==
    IF Len(list) = 0 THEN <<>>
    ELSE IF Len(list) = 1 THEN <<list[1]>>
    ELSE <<list[1], ", ">> \o Join(Tail(list))

\* handleMessage(data)
HandleMessage(data) ==
    CASE data.type = "frame" ->
            /\ currentFrame' = <<"data:image/jpeg;base64,", data.data[1]>>
            /\ detections' = Detections(data, detections)
            /\ currentTargetObjects' = OrDefault(data.target_objects, <<>>)
            /\ autoMovementEnabled' = OrDefault(data.auto_movement_enabled, FALSE)
            /\ movementActive' = OrDefault(data.movement_active, FALSE)
            /\ UNCHANGED <<detectionEnabled, targetObjects>>
      [] data.type = "detection_toggled" ->
            /\ detectionEnabled' = data.enabled[1]
            /\ UNCHANGED tankView
      [] data.type = "target_objects_set" ->
            /\ currentTargetObjects' = OrDefault(data.objects, <<>>)
            /\ targetObjects' = Join(OrDefault(data.objects, <<>>))
            /\ UNCHANGED <<detectionEnabled, currentFrame, detections,
                           autoMovementEnabled, movementActive>>
      [] data.type = "auto_movement_toggled" ->
            /\ autoMovementEnabled' = data.enabled[1]
            /\ UNCHANGED <<detectionEnabled, currentFrame, detections,
                           currentTargetObjects, targetObjects, movementActive>>
      [] data.type = "status" ->
            /\ detectionEnabled' = data.detection_enabled[1]
            /\ autoMovementEnabled' = data.auto_movement_enabled[1]
            /\ currentTargetObjects' = OrDefault(data.target_objects, <<>>)
            /\ targetObjects' = Join(OrDefault(data.target_objects, <<>>))
            /\ movementActive' = data.movement_active[1]
            /\ UNCHANGED <<currentFrame, detections>>
      [] OTHER -> UNCHANGED <<detectionEnabled, tankView>>

\* ws.onmessage of socket k: JSON.parse, then handleMessage
TankOnMessage(k) ==
    /\ tankSocks[k] = "OPEN"
    /\ \/ \E data \in TankMessages :
             /\ HandleMessage(data)
             /\ tankEv' = [act |-> "message", sock |-> k, sent |-> "", data |-> data]
       \/ /\ tankEv' = TankEv("malformed", k, "")   \* JSON.parse throws: caught, logged
          /\ UNCHANGED <<detectionEnabled, tankView>>
    /\ UNCHANGED <<dashVars, camVars, carVars, tankSock, tankTimers, tankConnectionStatus,
                   tankDestroyed, keysPressed>>

-----------------------------------------------------------------------------
(* RC-car controller (part_001)                                            *)

\* checkConnection and sendCommand invocations that may await at the same time
MaxProbes == 2
MaxCommands == 2

\* what the user may have typed into the address field
Urls == {<<>>, <<"192.168.1.100:8000">>}
\* serverUrl.startsWith('http://') || serverUrl.startsWith('https://')
HasScheme(url) == url # <<>> /\ url[1] \in {"http://", "https://"}

CarActions == {"forward", "stop"}
\* event.key of the keys the user may press, and the action of handleKeydown
CarKeys == {"W", " ", "x"}
CarKeyAction(key) ==
    CASE key \in {"w", "W"} -> "forward"
      [] key = " " -> "stop"
      [] OTHER -> ""

\* a checkConnection invocation: where it awaits, and whether its
\* setTimeout(() => controller.abort(), 5000) is still armed
NoProbe == [pc |-> "idle", timer |-> FALSE]
NewProbeWithoutTimeout == [pc |-> "fetch", timer |-> FALSE]
NewProbe == [pc |-> "fetch", timer |-> TRUE]

\* a sendCommand invocation: where it awaits, its action, and whether stopCar
\* awaits it
NoCommand == [pc |-> "idle", action |-> "", stop |-> FALSE]

FreeProbes == {i \in 1..MaxProbes : probes[i].pc = "idle"}
FreeCommands == {i \in 1..MaxCommands : commands[i].pc = "idle"}

CarEv(act, sent, alert) == [act |-> act, sent |-> sent, alert |-> alert]

otherVars == <<dashVars, camVars, tankVars>>

\* bind:value={serverUrl}
ServerUrlInput ==
    /\ \E url \in Urls : serverUrl' = url
    /\ serverUrl' # serverUrl
    /\ carEv' = CarEv("input", "", "")
    /\ UNCHANGED <<otherVars, connected, status, errorMessage, isMoving, currentAction,
                   probes, commands, carLast>>

\* checkConnection() up to `await fetch(...)`
CheckConnection ==
    /\ IF serverUrl = <<>>
       THEN /\ errorMessage' = "Please enter a server URL"
            /\ carEv' = CarEv("checkConnection", "", "")
            /\ UNCHANGED <<serverUrl, status, probes>>
       ELSE /\ FreeProbes # {}
            /\ serverUrl' = IF HasScheme(serverUrl) THEN serverUrl
                                                    ELSE <<"http://">> \o serverUrl
            /\ status' = "connecting..."
            /\ errorMessage' = ""
            /\ probes' = [probes EXCEPT ![CHOOSE i \in FreeProbes : TRUE] = NewProbe]
            /\ carEv' = CarEv("checkConnection", "GET /status", "")
    /\ UNCHANGED <<otherVars, connected, isMoving, currentAction, commands, carLast>>

\* checkConnection after `await fetch(...)` resolved: clearTimeout, then the
\* branch on response.ok
ProbeResponded(i) ==
    /\ probes[i].pc = "fetch"
    /\ \E ok \in BOOLEAN :
          IF ok
          THEN /\ connected' = TRUE
               /\ status' = "connected"
               /\ probes' = [probes EXCEPT ![i] = [pc |-> "json", timer |-> FALSE]]
               /\ carEv' = CarEv("response", "", "")
               /\ UNCHANGED errorMessage
          ELSE /\ connected' = FALSE
               /\ status' = "connection failed"
               /\ errorMessage' = "Server responded with status"
               /\ probes' = [probes EXCEPT ![i] = NoProbe]
               /\ carEv' = CarEv("failed", "", "")
    /\ UNCHANGED <<otherVars, serverUrl, isMoving, currentAction, commands, carLast>>

\* the catch block of checkConnection
ProbeCaught(i, act, message) ==
    /\ connected' = FALSE
    /\ status' = "connection error"
    /\ errorMessage' = message
    /\ probes' = [probes EXCEPT ![i].pc = "idle"]
    /\ carEv' = CarEv(act, "", "")

\* `await fetch(...)` rejects: the server cannot be reached.  The timeout stays
\* armed: clearTimeout is skipped
ProbeRejected(i) ==
    /\ probes[i].pc = "fetch"
    /\ ProbeCaught(i, "rejected",
                   "Cannot reach server - check IP address and network connection")
    /\ UNCHANGED <<otherVars, serverUrl, isMoving, currentAction, commands, carLast>>

\* the 5000 ms timer fires: controller.abort(), and a fetch still pending
\* rejects with an AbortError
ProbeTimeout(i) ==
    /\ probes[i].timer
    /\ IF probes[i].pc = "fetch"
       THEN /\ connected' = FALSE
            /\ status' = "connection error"
            /\ errorMessage' =
                  "Connection timeout - check if server is running and IP is correct"
            /\ probes' = [probes EXCEPT ![i] = NoProbe]
            /\ carEv' = CarEv("abort", "", "")
       ELSE /\ probes' = [probes EXCEPT ![i].timer = FALSE]
            /\ carEv' = CarEv("timer", "", "")
            /\ UNCHANGED <<connected, status, errorMessage>>
    /\ UNCHANGED <<otherVars, serverUrl, isMoving, currentAction, commands, carLast>>

\* checkConnection after `await response.json()`
ProbeParsed(i) ==
    /\ probes[i].pc = "json"
    /\ \/ /\ errorMessage' = ""
          /\ probes' = [probes EXCEPT ![i].pc = "idle"]
          /\ carEv' = CarEv("parsed", "", "")
          /\ UNCHANGED <<connected, status>>
       \/ ProbeCaught(i, "unparseable", "Connection error: SyntaxError")
    /\ UNCHANGED <<otherVars, serverUrl, isMoving, currentAction, commands, carLast>>

\* sendCommand(action) up to `await fetch(url, { method: 'POST' })`; stop: it is
\* stopCar that awaits it
SendCommand(action, stop) ==
    IF ~connected
    THEN /\ carEv' = CarEv("sendCommand", "", "Please connect to the car first!")
         /\ isMoving' = IF stop THEN FALSE ELSE isMoving
         /\ currentAction' = IF stop THEN "stopped" ELSE currentAction
         /\ UNCHANGED <<commands, carLast>>
    ELSE /\ FreeCommands # {}
         /\ isMoving' = TRUE
         /\ currentAction' = action
         /\ commands' = [commands EXCEPT ![CHOOSE i \in FreeCommands : TRUE] =
                            [pc |-> "fetch", action |-> action, stop |-> stop]]
         /\ carLast' = action
         /\ carEv' = CarEv("sendCommand", action, "")

\* stopCar() after `await sendCommand('stop')`, and the end of any sendCommand
CommandEnds(i, message) ==
    /\ commands' = [commands EXCEPT ![i] = NoCommand]
    /\ errorMessage' = message
    /\ isMoving' = IF commands[i].stop THEN FALSE ELSE isMoving
    /\ currentAction' = IF commands[i].stop THEN "stopped" ELSE currentAction

\* sendCommand after `await fetch(...)`
CommandResponded(i) ==
    /\ commands[i].pc = "fetch"
    /\ \/ /\ commands' = [commands EXCEPT ![i].pc = "json"]
          /\ carEv' = CarEv("commandResponse", "", "")
          /\ UNCHANGED <<errorMessage, isMoving, currentAction>>
       \/ /\ CommandEnds(i, "Command failed")
          /\ carEv' = CarEv("commandFailed", "", "")
       \/ /\ CommandEnds(i, "Command error: Failed to fetch")
          /\ carEv' = CarEv("commandRejected", "", "")
    /\ UNCHANGED <<otherVars, serverUrl, connected, status, probes, carLast>>

\* sendCommand after `await response.json()`
CommandParsed(i) ==
    /\ commands[i].pc = "json"
    /\ \/ CommandEnds(i, "")
       \/ CommandEnds(i, "Command error: SyntaxError")
    /\ carEv' = CarEv("commandParsed", "", "")
    /\ UNCHANGED <<otherVars, serverUrl, connected, status, probes, carLast>>

\* handleKeydown(event)
CarKeydown ==
    /\ \E key \in CarKeys :
          IF ~connected \/ CarKeyAction(key) = ""
          THEN /\ carEv' = CarEv("keydown", "", "")
               /\ UNCHANGED <<isMoving, currentAction, commands, carLast>>
          ELSE SendCommand(CarKeyAction(key), key = " ")
    /\ UNCHANGED <<otherVars, serverUrl, connected, status, errorMessage, probes>>

\* handleKeyup(event)
CarKeyup ==
    /\ \E key \in CarKeys :
          IF ~connected \/ CarKeyAction(key) \in {"", "stop"}
          THEN /\ carEv' = CarEv("keyup", "", "")
               /\ UNCHANGED <<isMoving, currentAction, commands, carLast>>
          ELSE SendCommand("stop", TRUE)
    /\ UNCHANGED <<otherVars, serverUrl, connected, status, errorMessage, probes>>

\* on:mousedown of a direction button (rendered {#if connected})
CarMouseDown ==
    /\ connected
    /\ \E action \in CarActions \ {"stop"} : SendCommand(action, FALSE)
    /\ UNCHANGED <<otherVars, serverUrl, connected, status, errorMessage, probes>>

\* on:mouseup / on:mouseleave of a direction button, on:click of STOP: stopCar
StopCar ==
    /\ connected
    /\ SendCommand("stop", TRUE)
    /\ UNCHANGED <<otherVars, serverUrl, connected, status, errorMessage, probes>>

-----------------------------------------------------------------------------
(* Initial values                                                          *)

\* the script-level `let`s of the camera session
CamScriptInit ==
    /\ ws = 0
    /\ socks = <<>>
    /\ camTimers = 0
    /\ cameraConnected = FALSE
    /\ imgUrl = 0
    /\ urls = {}
    /\ nextUrl = 0
    /\ detectionInfo = <<>>
    /\ objectDetected = FALSE
    /\ findObject = <<>>
    /\ foundTarget = FALSE
    /\ camEv = [act |-> "init"]

\* the script-level `let`s of the RC-car controller
CarScriptInit ==
    /\ serverUrl = <<>>
    /\ connected = FALSE
    /\ status = "disconnected"
    /\ errorMessage = ""
    /\ isMoving = FALSE
    /\ currentAction = "stopped"
    /\ probes = [i \in 1..MaxProbes |-> NoProbe]
    /\ commands = [i \in 1..MaxCommands |-> NoCommand]
    /\ carLast = ""
    /\ carEv = CarEv("init", "", "")

\* the script-level `let`s of the tank controller
TankScriptInit ==
    /\ tankWs = 0
    /\ tankSocks = <<>>
    /\ tankTimers = 0
    /\ tankConnectionStatus = "Disconnected"
    /\ tankDestroyed = FALSE
    /\ keysPressed = {}
    /\ detectionEnabled = TRUE
    /\ currentFrame = <<>>
    /\ detections = <<>>
    /\ currentTargetObjects = <<>>
    /\ targetObjects = <<>>
    /\ autoMovementEnabled = FALSE
    /\ movementActive = FALSE
    /\ tankEv = [act |-> "init"]

\* pin tables the remote service may hold when the page is opened
InitialGpio ==
    {EmptyMap} \cup {[p \in Pins |-> PinEntry("output", level, NoPwm)] : level \in BOOLEAN}

\* the dashboard right after its script ran and onMount sent its first request
DashStart(variants) ==
    /\ variant \in variants
    /\ connectionStatus = "disconnected"
    /\ pins = Obj(EmptyMap)
    /\ availablePins = Obj(EmptyMap)
    /\ predefinedPins = Obj(EmptyMap)
    /\ motorStatus = Obj(EmptyMap)
    /\ tankLeftSpeed = 0
    /\ tankRightSpeed = 0
    /\ moving = FALSE
    /\ refreshInterval = "unset"
    /\ lifecycle = "mounted"
    /\ tasks = [i \in 1..MaxTasks |->
                  IF i = 1
                  THEN Task("onMount", "mount", Head(MountStages(variant)),
                            Tail(MountStages(variant)),
                            StageReq(Head(MountStages(variant))))
                  ELSE Idle]
    /\ gpio \in InitialGpio
    /\ motor = MotorAll(FALSE)
    /\ ev = Ev("init", "onMount", "mount", StageReq(Head(MountStages(variant))),
               "", "", "", NoData)
    /\ tog = NoTog
    /\ race = [i \in 1..MaxTasks |-> NoRace]
    /\ invocations = 0

DashInit == DashStart({"page", "part000"})

Init == DashInit /\ faults = 0 /\ CamScriptInit /\ TankScriptInit /\ CarScriptInit

\* no invocation started by the user or by onMount is in flight
Quiet == \A i \in 1..MaxTasks : tasks[i].origin \notin {"user", "mount"}

\* The dashboard with a user who acts when the page has loaded and the previous
\* action has resolved; responses, timer ticks and the destruction of the
\* component come at any moment.
Next ==
    \/ \E i \in 1..MaxTasks : MakeRequestFetched(i)
    \/ \E i \in 1..MaxTasks : MakeRequestParsed(i)
    \/ \E i \in 1..MaxTasks : CheckConnectionFetched(i)
    \/ Quiet /\ QuickConfigurePin
    \/ Quiet /\ TogglePin
    \/ Quiet /\ SetPinHigh
    \/ Quiet /\ SetPinLow
    \/ Quiet /\ SetPredefinedPinHigh
    \/ Quiet /\ SetPredefinedPinLow
    \/ Quiet /\ TankLeftInput
    \/ Quiet /\ TankRightInput
    \/ Quiet /\ MoveForward
    \/ Quiet /\ Drive
    \/ Quiet /\ StopMotors
    \/ Quiet /\ SetPWM
    \/ Quiet /\ StopPWM
    \/ Quiet /\ CleanupAllPins
    \/ Quiet /\ RefreshClick
    \/ TimerTick
    \/ Destroy

Spec == Init /\ [][Next]_vars

\* The camera session: +page.svelte is mounted against a service that answers
\* every request of onMount, whose last statement before setInterval is
\* startCamera(); from then on the socket events, the reconnect timer and the
\* user drive the session.
CamInit ==
    /\ DashInit
    /\ variant = "page"
    /\ gpio = EmptyMap
    /\ faults = MaxFaults
    /\ CamScriptInit
    /\ CarScriptInit
    /\ TankScriptInit

CamNext ==
    \/ \E i \in 1..MaxTasks : MakeRequestFetched(i)
    \/ \E i \in 1..MaxTasks : MakeRequestParsed(i)
    \/ \E i \in 1..MaxTasks : CheckConnectionFetched(i)
    \/ StartCameraClick
    \/ \E k \in 1..Len(socks) : CamOnOpen(k)
    \/ \E k \in 1..Len(socks) : CamOnError(k)
    \/ \E k \in 1..Len(socks) : CamOnClose(k)
    \/ CamReconnectTimer
    \/ \E k \in 1..Len(socks) : CamOnText(k)
    \/ \E k \in 1..Len(socks) : CamOnFrame(k)
    \/ FindObjectInput

CamSpec == CamInit /\ [][CamNext]_vars

\* The tank controller right after onMount called connectToBackend()
TankInit ==
    /\ DashInit
    /\ variant = "page"
    /\ gpio = EmptyMap
    /\ faults = 0
    /\ CamScriptInit
    /\ CarScriptInit
    /\ \/ /\ tankWs = 1
          /\ tankSocks = <<"CONNECTING">>
          /\ tankConnectionStatus = "Disconnected"
       \/ /\ tankWs = 0
          /\ tankSocks = <<>>
          /\ tankConnectionStatus = "Error"
    /\ tankTimers = 0
    /\ tankDestroyed = FALSE
    /\ keysPressed = {}
    /\ detectionEnabled = TRUE
    /\ currentFrame = <<>>
    /\ detections = <<>>
    /\ currentTargetObjects = <<>>
    /\ targetObjects = <<>>
    /\ autoMovementEnabled = FALSE
    /\ movementActive = FALSE
    /\ tankEv = TankEv("connectToBackend", 0, "")

TankNext ==
    \/ \E k \in 1..Len(tankSocks) : TankOnOpen(k)
    \/ \E k \in 1..Len(tankSocks) : TankOnError(k)
    \/ \E k \in 1..Len(tankSocks) : TankOnClose(k)
    \/ TankReconnectTimer
    \/ TankOnDestroy
    \/ HandleKeyDown
    \/ HandleKeyUp
    \/ ToggleDetection
    \/ ToggleAutoMovement
    \/ SetTargetObjects
    \/ TankMouseDown
    \/ TankMouseUp

TankSpec == TankInit /\ [][TankNext]_vars

-----------------------------------------------------------------------------
(* Properties of the State Mirror and the Command Dispatcher (Spec)          *)

FailureKinds == {"transport", "http", "parse"}
\* the last step was the synchronous part of an invocation, up to its first await
Invoked == ev.stage = "" /\ ev.op \notin {"", "onMount"}

\* C1: when loadAllPins has got a successful response that carries `pins`, the
\* mirror pins is exactly that field, and when loadMotorStatus has got one that
\* carries `motor_status`, motorStatus is exactly that field: nothing of the
\* mapping held before survives.
C1_WholesaleReplacement ==
    /\ (ev.stage = "pins" /\ ev.outcome = "ok" /\ ev.data.pins.t = "object")
          => pins = ev.data.pins
    /\ (ev.stage = "motor" /\ ev.outcome = "ok" /\ ev.data.motor_status.t = "object")
          => motorStatus = ev.data.motor_status

\* cleanupAllPins emptied the remote pin table, and the refresh that followed
\* left the mirror pins empty, every pin being available again
C1_Witness ==
    /\ ev.op = "cleanupAllPins" /\ ev.stage = "pins" /\ ev.outcome = "ok"
    /\ ev.data.pins = Obj(EmptyMap)
    /\ pins = Obj(EmptyMap)
    /\ availablePins.m # EmptyMap

\* C2: a refresh stage that fails (no response, 4xx/5xx, unparseable body)
\* leaves pins, availablePins, predefinedPins and motorStatus as they were, sets
\* connectionStatus to 'error', shows no alert, and the invocation it belongs to
\* goes on with its next statement as if the refresh had returned.
C2_FailedRefreshKeepsMirror ==
    [][\A i \in 1..MaxTasks :
          (/\ tasks[i].cur \in RefreshStages
           /\ tasks'[i] # tasks[i]
           /\ ev'.op = tasks[i].op /\ ev'.stage = tasks[i].cur
           /\ ev'.outcome \in FailureKinds)
          => /\ UNCHANGED mirrorVars
             /\ connectionStatus' = "error"
             /\ ev'.alert = ""
             /\ IF tasks[i].todo # <<>>
                THEN /\ tasks'[i].cur = Head(tasks[i].todo)
                     /\ ev'.sent = StageReq(Head(tasks[i].todo))
                ELSE /\ tasks'[i] = Idle
                     /\ (tasks[i].op = "onMount" => refreshInterval' = "set")]_vars

\* GET /pins/all was answered 4xx/5xx: the mirror still holds the entries it
\* had, the status is 'error', and the invocation has sent GET /motor/status
C2_Witness ==
    /\ ev.stage = "pins" /\ ev.outcome = "http"
    /\ connectionStatus = "error"
    /\ pins.t = "object" /\ pins.m # EmptyMap
    /\ ev.sent = GetMotor

\* C3: every GET /pins/all and GET /motor/status that a timer tick sends is
\* sent while connectionStatus is 'connected'.
C3_TimerSendsOnlyWhenConnected ==
    (ev.origin = "timer" /\ ev.sent \in {GetPins, GetMotor})
       => connectionStatus = "connected"

\* C5: when the request of a command is answered 4xx/5xx, the command sends no
\* refresh request and leaves connectionStatus at 'error'.
C5_FailedCommandSendsNoRefresh ==
    (ev.stage = "cmd" /\ ev.outcome = "http")
       => (ev.sent = NoReq /\ connectionStatus # "connected")

C7_SetPWMStartsOrUpdates ==
    (Invoked /\ ev.op = "setPWM")
       => \E pin \in Pins, dutyCycle \in DutyInputs :
             LET duty == DutyArg(variant, dutyCycle) IN
             ev.sent = IF MirrorHasPwm(pins, pin)
                       THEN Req("PUT", "/pwm/update", 0,
                                [pin |-> pin, duty_cycle |-> duty])
                       ELSE Req("POST", "/pwm/start", 0,
                                [pin |-> pin, frequency |-> 1000, duty_cycle |-> duty])

\* C9: once the component is destroyed, no timer tick sends a refresh request.
C9_NoTimerRequestAfterDestroy ==
    (lifecycle = "destroyed" /\ Invoked /\ ev.origin = "timer") => ev.sent = NoReq

\* C11: when two refresh requests for the same mapping are in flight at the same
\* time and the one sent first is answered last, the mapping holds the response
\* of the one answered last, that is of the one sent first.
C11_LastResolvedWins ==
    (ev.late /\ ev.outcome = "ok")
       => /\ (ev.stage = "pins" /\ ev.data.pins.t = "object") => pins = ev.data.pins
          /\ (ev.stage = "motor" /\ ev.data.motor_status.t = "object")
                => motorStatus = ev.data.motor_status
          /\ (ev.stage = "predefined" /\ ev.data.predefined_pins.t = "object")
                => predefinedPins = ev.data.predefined_pins

\* the timer's GET /pins/all was sent before a command's refresh and answered
\* after it: the mirror holds the timer's response, which is older than the
\* remote pin table
C11_Witness ==
    /\ ev.late /\ ev.origin = "timer" /\ ev.stage = "pins" /\ ev.outcome = "ok"
    /\ pins = ev.data.pins
    /\ pins.m # gpio
    /\ faults = 0

-----------------------------------------------------------------------------
(* Properties of the tank-controller session (TankSpec)                      *)

\* C4: once onDestroy has run (and called ws.close()), connectToBackend is not
\* called again.
C4_NoConnectAfterTeardown ==
    tankDestroyed => tankEv.act # "connectToBackend"

-----------------------------------------------------------------------------
(* Properties of the camera session (CamSpec)                                *)

\* C8: after each text message, foundTarget is true exactly when a target is
\* set and the latest batch holds an entry whose lower-cased label contains the
\* trimmed, lower-cased target.
C8_FoundTargetFollowsBatch ==
    camEv.act = "text"
       => (foundTarget <=> (trim(findObject) # <<>> /\ HasMatch(detectionInfo, findObject)))

\* C10: at every moment the object URLs created and not revoked are at most
\* one, the current imgUrl.
C10_AtMostOneLiveUrl ==
    /\ urls \subseteq {imgUrl}
    /\ Cardinality(urls) <= 1

\* a second frame has replaced the first
C10_Witness ==
    /\ camEv.act = "frame"
    /\ nextUrl = 2 /\ imgUrl = 2 /\ urls = {2}

-----------------------------------------------------------------------------
(* The three variants of the GPIO dashboard: +page.svelte, part_000 and the  *)
(* form page part_002, which has no timer and no motor controls              *)

\* the handlers each variant's template offers
OnDashboard == Quiet /\ variant # "part002"
OnForm == Quiet /\ variant = "part002"

DashSpecInit ==
    /\ DashStart({"page", "part000", "part002"})
    /\ faults = 0
    /\ CamScriptInit
    /\ CarScriptInit
    /\ TankScriptInit

DashSpecNext ==
    \/ \E i \in 1..MaxTasks : MakeRequestFetched(i)
    \/ \E i \in 1..MaxTasks : MakeRequestParsed(i)
    \/ \E i \in 1..MaxTasks : CheckConnectionFetched(i)
    \/ OnDashboard /\ QuickConfigurePin
    \/ OnDashboard /\ TogglePin
    \/ OnDashboard /\ SetPinHigh
    \/ OnDashboard /\ SetPinLow
    \/ OnDashboard /\ SetPredefinedPinHigh
    \/ OnDashboard /\ SetPredefinedPinLow
    \/ OnDashboard /\ TankLeftInput
    \/ OnDashboard /\ TankRightInput
    \/ OnDashboard /\ MoveForward
    \/ OnDashboard /\ Drive
    \/ OnDashboard /\ StopMotors
    \/ OnDashboard /\ SetPWM
    \/ Quiet /\ StopPWM
    \/ Quiet /\ CleanupAllPins
    \/ Quiet /\ RefreshClick
    \/ OnForm /\ ConfigurePin
    \/ OnForm /\ DigitalWrite
    \/ OnForm /\ DigitalRead
    \/ OnForm /\ StartPWM
    \/ OnForm /\ UpdatePWM
    \/ OnForm /\ TogglePredefinedPin
    \/ OnForm /\ UpdatePredefinedPWM
    \/ TimerTick
    \/ Destroy

DashSpec == DashSpecInit /\ [][DashSpecNext]_vars

-----------------------------------------------------------------------------
(* Text messages: the camera socket and the tank controller's socket are    *)
(* opened and the peers push text messages on them                          *)

MsgInit == TankInit /\ tankWs = 1

MsgNext ==
    \/ StartCameraClick
    \/ \E k \in 1..Len(socks) : CamOnOpen(k)
    \/ \E k \in 1..Len(socks) : CamOnText(k)
    \/ \E k \in 1..Len(tankSocks) : TankOnOpen(k)
    \/ \E k \in 1..Len(tankSocks) : TankOnMessage(k)

MsgSpec == MsgInit /\ [][MsgNext]_vars

-----------------------------------------------------------------------------
(* The RC-car controller part_001                                           *)

CarNext ==
    \/ ServerUrlInput
    \/ CheckConnection
    \/ \E i \in 1..MaxProbes : ProbeResponded(i)
    \/ \E i \in 1..MaxProbes : ProbeRejected(i)
    \/ \E i \in 1..MaxProbes : ProbeTimeout(i)
    \/ \E i \in 1..MaxProbes : ProbeParsed(i)
    \/ \E i \in 1..MaxCommands : CommandResponded(i)
    \/ \E i \in 1..MaxCommands : CommandParsed(i)
    \/ CarKeydown
    \/ CarKeyup
    \/ CarMouseDown
    \/ StopCar

\* the dashboard is not on this page: its state stays as its script leaves it
CarInit == Init /\ variant = "page" /\ gpio = EmptyMap

CarSpec == CarInit /\ [][CarNext]_vars

\* timers fire, and a rejected or resolved promise has its continuation run;
\* the server need not ever answer
CarLiveSpec ==
    /\ CarSpec
    /\ WF_vars(\E i \in 1..MaxProbes : ProbeTimeout(i))

-----------------------------------------------------------------------------
(* The target gate: +page.svelte with the camera session pushing detection  *)
(* batches, the user typing a target and pressing Forward at any moment     *)

GateNext ==
    \/ \E i \in 1..MaxTasks : MakeRequestFetched(i)
    \/ \E i \in 1..MaxTasks : MakeRequestParsed(i)
    \/ \E i \in 1..MaxTasks : CheckConnectionFetched(i)
    \/ \E k \in 1..Len(socks) : CamOnOpen(k)
    \/ \E k \in 1..Len(socks) : CamOnText(k)
    \/ FindObjectInput
    \/ MoveForward

GateInit ==
    /\ DashInit /\ variant = "page" /\ gpio = EmptyMap
    /\ faults = 0
    /\ CamScriptInit
    /\ CarScriptInit
    /\ TankScriptInit

GateSpec == GateInit /\ [][GateNext]_vars

-----------------------------------------------------------------------------
(* Overlapping pin commands: +page.svelte with a pin card whose toggle      *)
(* button is clicked and whose PWM slider is dragged (on:input fires for    *)
(* every step of the drag) while earlier invocations are still awaiting     *)

OverlapInit ==
    /\ DashInit /\ variant = "page" /\ gpio # EmptyMap
    /\ faults = MaxFaults          \* the service answers every request well
    /\ CamScriptInit
    /\ CarScriptInit
    /\ TankScriptInit

OverlapNext ==
    \/ \E i \in 1..MaxTasks : MakeRequestFetched(i)
    \/ \E i \in 1..MaxTasks : MakeRequestParsed(i)
    \/ \E i \in 1..MaxTasks : CheckConnectionFetched(i)
    \/ TogglePin
    \/ SetPWM
    \/ StopPWM

OverlapSpec == OverlapInit /\ [][OverlapNext]_vars

-----------------------------------------------------------------------------
(* Re-entrant handlers: +page.svelte with the motor buttons and keys pressed *)
(* while earlier invocations are still awaiting (a held key repeats keydown) *)

ReentrantInit ==
    /\ DashInit /\ variant = "page" /\ gpio = EmptyMap
    /\ faults = 0
    /\ CamScriptInit
    /\ CarScriptInit
    /\ TankScriptInit

ReentrantNext ==
    \/ \E i \in 1..MaxTasks : MakeRequestFetched(i)
    \/ \E i \in 1..MaxTasks : MakeRequestParsed(i)
    \/ \E i \in 1..MaxTasks : CheckConnectionFetched(i)
    \/ MoveForward
    \/ StopMotors

ReentrantSpec == ReentrantInit /\ [][ReentrantNext]_vars

\* C12 (as stated): whenever a request of any kind (refresh, command, probe)
\* resolves, connectionStatus is 'connected' if it succeeded and 'error' if it
\* failed (non-success HTTP status, transport failure, unparseable body).
\* Violated: checkConnection leaves connectionStatus as it was when the probe is
\* answered with a non-success status.
C12_StatusFollowsLastResolution ==
    /\ ev.outcome = "ok" => connectionStatus = "connected"
    /\ ev.outcome \in FailureKinds => connectionStatus = "error"

\* C13 (as stated): in every variant a failed makeRequest signals the failure
\* to its caller: on a non-success HTTP status with the detail of the error
\* body, or with 'Request failed' when that body cannot be parsed (or has no
\* detail); on a transport failure with the transport's error text.
\* Violated: part_000 returns null instead of throwing, and without the
\* `.catch` on response.json() an unparseable error body gives a SyntaxError.
C13_FailureCarriesMessage ==
    LET f == ev.thrown.failure IN
    /\ (f.kind = "http" /\ f.detail = "detail") => ev.thrown.message = "server detail"
    /\ (f.kind = "http" /\ f.detail \in {"nodetail", "unparseable"})
          => ev.thrown.message = "Request failed"
    /\ f.kind = "transport" => ev.thrown.message = "Failed to fetch"

\* C14 (as stated): every command, once its request has succeeded, sends the
\* relevant refresh before it completes: motor commands GET /motor/status, the
\* others GET /pins, and cleanup both, one after the other, since
\* POST /pins/cleanup releases the motor pins as well.
\* Violated: cleanupAllPins of part_000 ends after loadAllPins.
C14_CommandRefreshesAffected ==
    /\ (ev.stage = "cmd" /\ ev.outcome = "ok")
          => ev.sent = IF ev.op \in MotorOps THEN GetMotor ELSE GetPins
    /\ (ev.op = "cleanupAllPins" /\ ev.stage = "pins" /\ ev.outcome # "")
          => ev.sent = GetMotor

\* C15 (as stated): every invocation of a command sends exactly one non-GET
\* request: its first step sends one (none silently sends nothing), and no
\* later step of it sends another.
\* Violated: moveForward called while an earlier moveForward is awaiting
\* returns at `if (moving) return` without a request and without a message.
C15_ExactlyOneCommandRequest ==
    /\ (Invoked /\ ev.op \in CommandOps)
          => (ev.sent.method \notin {"", "GET"} \/ ev.alert # "")
    /\ (ev.stage # "" /\ ev.op \in CommandOps) => ev.sent.method \in {"", "GET"}

\* C17 (as stated): whenever the tank session is closed or an attempt to
\* connect has failed, and the view is not torn down, a new attempt is pending:
\* with no socket connecting, open or closing, a reconnect timer is armed.
\* Violated: when `new WebSocket` throws, the catch block of connectToBackend
\* arms no timer, and nothing else ever will.
C17_ClosedSessionHasRetryPending ==
    (/\ ~tankDestroyed
     /\ \A k \in 1..Len(tankSocks) : tankSocks[k] = "CLOSED")
        => tankTimers > 0

\* C20 (as stated): in every variant a failing refresh (loadAllPins,
\* loadPredefinedPins, loadMotorStatus) raises no alert, whatever the kind of
\* failure; only connectionStatus shows it.
\* Violated: makeRequest of part_002 calls alert() in its own catch block, for
\* refreshes as for commands.
C20_FailedRefreshRaisesNoAlert ==
    (ev.stage \in RefreshStages /\ ev.outcome \in FailureKinds) => ev.alert = ""

\* C16: no command assigns the mirror directly.  Any step that changes pins or
\* availablePins is the one in which loadAllPins receives the answer to
\* GET /pins/all, any step that changes motorStatus the one in which
\* loadMotorStatus receives the answer to GET /motor/status; so from the moment
\* a command is issued until a refresh response is applied they stay as they
\* were.
C16_MirrorChangesOnlyInLoaders ==
    [][/\ (pins' # pins \/ availablePins' # availablePins)
            => (ev'.stage = "pins" /\ ev'.outcome = "ok")
       /\ motorStatus' # motorStatus => (ev'.stage = "motor" /\ ev'.outcome = "ok")
       /\ predefinedPins' # predefinedPins
            => (ev'.stage = "predefined" /\ ev'.outcome = "ok")]_vars
\* a command of the form page has run to its end and the mirror holds what its
\* refresh returned
C16_Witness ==
    /\ ev.op = "configurePin" /\ ev.stage = "pins" /\ ev.outcome = "ok"
    /\ pins = ev.data.pins
    /\ pins.t = "object" /\ 13 \in DOMAIN pins.m
    /\ \A i \in 1..MaxTasks : tasks[i].op = "idle"

\* C18: a successful pin refresh updates pins and availablePins in one step.
\* Whenever either of them changes, both are, after that very step, what the
\* one response applied in it holds (with {} for an absent field in
\* +page.svelte): no state has pins from a new response and availablePins from
\* an older one, nor the converse.
C18_PinsAndAvailableChangeTogether ==
    [][(pins' # pins \/ availablePins' # availablePins)
          => LET data == ev'.data IN
             /\ ev'.stage = "pins" /\ Truthy(data)
             /\ pins' = IF variant = "page" THEN OrElse(data.pins, Obj(EmptyMap))
                                            ELSE data.pins
             /\ availablePins' = IF variant = "page"
                                 THEN OrElse(data.available_pins, Obj(EmptyMap))
                                 ELSE data.available_pins]_vars
\* the refresh that ends cleanupAllPins has emptied pins and filled
\* availablePins from the same response
C18_Witness ==
    /\ ev.op = "cleanupAllPins" /\ ev.stage = "pins" /\ ev.outcome = "ok"
    /\ pins = Obj(EmptyMap) /\ pins = ev.data.pins
    /\ availablePins = ev.data.available_pins
    /\ availablePins.t = "object" /\ 13 \in DOMAIN availablePins.m

\* C19: a text message replaces the fields it carries wholesale.  After a text
\* message on the camera socket detectionInfo is the message's detections, or
\* empty when the message has none; after a 'frame' message on the tank
\* controller's socket detections, currentTargetObjects, autoMovementEnabled
\* and movementActive are the message's values, or [] / false where it has
\* none.  Nothing of the previous batch is left.
C19_MessageReplacesFields ==
    /\ camEv.act = "text"
          => detectionInfo = IF camEv.info.detections = Absent
                             THEN <<>> ELSE camEv.info.detections[1]
    /\ (tankEv.act = "message" /\ tankEv.data.type = "frame")
          => LET data == tankEv.data IN
             /\ detections = IF data.detections = Absent
                              THEN <<>> ELSE data.detections[1]
             /\ currentTargetObjects = IF data.target_objects = Absent
                                        THEN <<>> ELSE data.target_objects[1]
             /\ autoMovementEnabled = (data.auto_movement_enabled = Some(TRUE))
             /\ movementActive = (data.movement_active = Some(TRUE))
\* a camera message carrying one detection and a tank frame carrying no
\* optional field have both been handled
C19_Witness ==
    /\ camEv.act = "text" /\ camEv.info.detections = Some(<<Car>>)
    /\ detectionInfo = <<Car>>
    /\ tankEv.act = "message" /\ tankEv.data.type = "frame"
    /\ tankEv.data.detections = Absent /\ tankEv.data.movement_active = Absent
    /\ detections = <<>> /\ ~movementActive
    /\ currentFrame # <<>>

\* C21 (as stated): in every variant a command whose request fails shows a
\* message to the user (an alert with the server's detail or a generic text)
\* and leaves pins, availablePins, predefinedPins and motorStatus as they were.
\* Violated: in part_000 makeRequest returns null, the command shows nothing
\* and goes on to its refresh.
C21_FailedCommandShowsMessage ==
    [][(ev'.stage = "cmd" /\ ev'.outcome \in FailureKinds)
          => (ev'.alert # "" /\ UNCHANGED mirrorVars)]_vars

\* C22 (as stated): every failure, a 2xx response whose body lacks the
\* expected fields included, is caught where the request is made: no
\* invocation ends in an exception nobody handles, and no later operation
\* throws because a mapping is not a mapping.
\* Violated: loadAllPins of part_000 assigns data.pins as it is, so a body
\* without that field leaves pins undefined, and the next togglePin or setPWM
\* throws a TypeError on pins[pin] outside any try block.
C22_NoUnhandledException == ev.outcome # "TypeError"

\* C23: the probe of the RC-car controller has an abort timeout.  When the
\* 5000 ms timer fires while the fetch is pending, the probe ends with
\* connected = false and status 'connection error'; and, the timer being
\* bound to fire, status never stays 'connecting...' forever, whether or not
\* the server ever answers.
C23_ProbeTimesOut ==
    /\ [](carEv.act = "abort" => (~connected /\ status = "connection error"))
    /\ (status = "connecting...") ~> (status # "connecting...")
\* a probe has been aborted by its timer
C23_Witness ==
    /\ carEv.act = "abort"
    /\ status = "connection error" /\ ~connected
    /\ errorMessage = "Connection timeout - check if server is running and IP is correct"

\* C24: predefinedPins is sourced once, at startup.  Any step that changes it
\* is the one in which the loadPredefinedPins call of onMount receives its
\* answer; no step of the timer, of a command or of the Refresh button does.
C24_PredefinedSourcedAtMount ==
    [][predefinedPins' # predefinedPins
          => (ev'.op = "onMount" /\ ev'.stage = "predefined" /\ ev'.outcome = "ok")]_vars
\* the mapping has been loaded at mount, and a command has since run to the
\* end of its refresh without touching it
C24_Witness ==
    /\ predefinedPins.t = "object" /\ predefinedPins.m # EmptyMap
    /\ ev.origin = "user" /\ ev.stage = "pins" /\ ev.outcome = "ok"
    /\ \A i \in 1..MaxTasks : tasks[i].op = "idle"

\* C25: moveForward sends POST /motor/forward only when no object
\* is detected or the target is found, that is, a target is configured and
\* an entry of the latest batch matches it.
\* Violated: with the target field blank the gate is skipped, and the request
\* is sent although objects are detected and no target is found.
C25_ForwardOnlyWhenClearOrFound ==
    [][(invocations' # invocations /\ ev'.op = "moveForward"
          /\ ev'.sent.path = "/motor/forward")
          => \/ Len(detectionInfo) = 0
             \/ /\ trim(findObject) # <<>>
                /\ \E i \in 1..Len(detectionInfo) :
                      MatchesTarget(detectionInfo[i], findObject)]_vars
\* What the gate of moveForward does guarantee: it sends nothing, and raises
\* an alert, exactly when the latest batch is non-empty, the target field is
\* not blank and no entry of the batch matches the target.
GateBlocksUnmatchedTarget ==
    [][(invocations' # invocations /\ ev'.op = "moveForward" /\ ~moving)
          => LET blocked ==
                   /\ Len(detectionInfo) > 0
                   /\ trim(findObject) # <<>>
                   /\ ~\E i \in 1..Len(detectionInfo) :
                          MatchesTarget(detectionInfo[i], findObject)
             IN IF blocked
                THEN ev'.sent = NoReq /\ ev'.alert # "" /\ UNCHANGED tasks
                ELSE ev'.sent.path = "/motor/forward" /\ ev'.sent.method = "POST"]_vars
\* the gate has stopped a moveForward
GateBlocked ==
    /\ ev.op = "moveForward" /\ ev.outcome = "gated" /\ ev.sent = NoReq
    /\ Len(detectionInfo) > 0 /\ trim(findObject) # <<>>
    /\ ~HasMatch(detectionInfo, findObject)

\* C26: after a failure has set connectionStatus to 'error', the periodic
\* timer still refreshes: a firing of the timer in that state sends GET /pins
\* (followed by GET /motor/status), so that the mirror recovers without any
\* user action once the service answers again.
\* Violated: the callback sends only while connectionStatus is 'connected'.
C26_TimerRefreshesAfterError ==
    [][(invocations' # invocations /\ ev'.op = "tick" /\ connectionStatus = "error")
          => ev'.sent = GetPins]_vars

\* C27: between a successful POST /pwm/start for a pin and the next
\* /pwm/stop (or cleanup), which is while the service runs PWM on the pin,
\* the client sends no further POST /pwm/start for that pin.
\* Violated: setPWM chooses between start and update from the mirror, which
\* still lacks the pwm entry until the refresh after the first start is applied.
C27_NoSecondPwmStart ==
    [][(invocations' # invocations /\ ev'.op = "setPWM"
          /\ ev'.sent.path = "/pwm/start")
          => gpio[ev'.sent.body.pin].pwm = NoPwm]_vars

C29_OneCameraSession ==
    /\ Cardinality({k \in 1..Len(socks) : socks[k] \in {"CONNECTING", "OPEN"}}) <= 1
    /\ cameraConnected <=> (ws # 0 /\ socks[ws] = "OPEN")

\* C30: at most one POST /motor/forward sent by moveForward is in flight, and
\* a moveForward invoked while `moving` is set (another invocation is between
\* its entry and its completion) returns without sending and without an alert.
C30_OneForwardInFlight ==
    /\ Cardinality({i \in 1..MaxTasks :
                       tasks[i].op = "moveForward" /\ tasks[i].cur = "cmd"}) <= 1
    /\ (\E i \in 1..MaxTasks : tasks[i].op = "moveForward") => moving
    /\ (ev.op = "moveForward" /\ ev.outcome = "busy")
          => (ev.sent = NoReq /\ ev.alert = "" /\ moving)
\* a second moveForward came while the first awaited, and sent nothing
C30_Witness ==
    /\ ev.op = "moveForward" /\ ev.outcome = "busy" /\ ev.sent = NoReq
    /\ \E i \in 1..MaxTasks :
          /\ tasks[i].op = "moveForward" /\ tasks[i].cur = "cmd"
          /\ tasks[i].req.path = "/motor/forward"

\* C31: the moving guard is released on every exit path of moveForward:
\* whenever no moveForward invocation is in progress, moving is false.
C31_MovingReleasedOnEveryExit ==
    (\A i \in 1..MaxTasks : tasks[i].op # "moveForward") => ~moving
\* a moveForward whose request failed has ended in its catch block, and the
\* guard is free again
C31_Witness ==
    /\ ev.op = "moveForward" /\ ev.outcome \in FailureKinds /\ ev.alert # ""
    /\ \A i \in 1..MaxTasks : tasks[i].op # "moveForward"
    /\ ~moving

\* C32: on the tank-controller page a message (control, toggle_detection,
\* set_target_objects, toggle_auto_movement, get_status) is sent only while
\* the socket ws refers to is OPEN; otherwise the handler sends nothing, and
\* no later event sends it: the socket events send nothing but the
\* get_status of onopen.
C32_SendsOnlyWhileOpen ==
    /\ tankEv.sent # "" => (tankWs # 0 /\ tankSocks[tankWs] = "OPEN")
    /\ tankEv.act \in {"onerror", "onclose", "connectToBackend", "onDestroy"}
          => tankEv.sent = ""
    /\ tankEv.act = "onopen" => tankEv.sent \in {"", "get_status"}
\* a button was pressed while the socket was still connecting: nothing was sent
C32_Witness ==
    /\ tankEv.act = "mousedown" /\ tankEv.sent = ""
    /\ tankWs # 0 /\ tankSocks[tankWs] = "CONNECTING"

\* C33: when the user changes the detection (auto-movement) checkbox, the
\* message sent carries enabled equal to the new checked state of the box, and
\* detectionEnabled (autoMovementEnabled) afterwards equals that state.
\* Violated: bind:checked has already assigned the new state when the
\* on:change handler negates the flag, so the flag and the message carry the
\* state the box had before the click.
C33_ToggleCarriesCheckedState ==
    /\ tankEv.act = "toggleDetection"
          => (tankEv.enabled = tankEv.checked /\ detectionEnabled = tankEv.checked)
    /\ tankEv.act = "toggleAutoMovement"
          => (tankEv.enabled = tankEv.checked /\ autoMovementEnabled = tankEv.checked)

C35_StopOnlyWhenNoKeyHeld ==
    (tankEv.act = "keyup" /\ tankEv.sent = "stop")
       => \A key \in keysPressed : LowerChar(key) \notin MovementKeys

\* C36: in the RC-car controller connected is true if and only if status is
\* 'connected', in every reachable state; so sendCommand issues a request
\* only while status is 'connected'.
\* Violated: checkConnection sets status to 'connecting...' and leaves
\* connected as it is until the probe is answered.
C36_ConnectedIffStatus ==
    /\ connected <=> status = "connected"
    /\ (carEv.act = "sendCommand" /\ carEv.sent # "") => status = "connected"

\* C37: in the RC-car controller, once every command request has resolved,
\* currentAction is 'stopped' and isMoving is false if the last command sent
\* was 'stop', and otherwise currentAction names the last command sent and
\* isMoving is true.
\* Violated: the continuation of stopCar writes 'stopped' when its own request
\* resolves, whatever was sent in the meantime.
C37_DisplayFollowsLastCommand ==
    ((\A i \in 1..MaxCommands : commands[i] = NoCommand) /\ carLast # "")
       => IF carLast = "stop"
          THEN currentAction = "stopped" /\ ~isMoving
          ELSE currentAction = carLast /\ isMoving

\* C38: on the camera page objectDetected is true if and only if
\* detectionInfo is non-empty, in every reachable state: initially, after
\* every text message, after a malformed message and across reconnects.
C38_ObjectDetectedIffNonEmpty == objectDetected <=> Len(detectionInfo) > 0
\* a malformed message came after a non-empty batch and left both as they were
C38_Witness ==
    /\ camEv.act = "malformed"
    /\ objectDetected /\ Len(detectionInfo) > 0
====
